---- MODULE Spec2Model ----
(***************************************************************************)
(* Model of the batch generators and of the critique-refine pipeline of    *)
(* LLMService (llm_service.py).  One behaviour is one invocation of an     *)
(* entry point: a batch generator, or the pipeline called on its own in    *)
(* its blocking or its suspendable form.  A step of a unit is the code     *)
(* that runs between two suspension points (an LLM request is the only     *)
(* place where a unit suspends).                                           *)
(***************************************************************************)
EXTENDS Integers, Sequences, FiniteSets, TLC

VARIABLES env, bpc, tasks, idx, results, failed, unit, requests, store, notified,
          jreq, retry, rerun, dm, config

vars == <<env, bpc, tasks, idx, results, failed, unit, requests, store, notified,
          jreq, retry, rerun, dm, config>>

\* The state of the operations that are called on their own, outside a batch
\* and outside the pipeline.
standalone == <<jreq, retry, rerun, dm, config>>

\* Largest number of chapters handed to one invocation.
MaxUnits == 2

Units == 1..MaxUnits

(***************************************************************************)
(* Values.  Python's None, and the marker of a variable not yet assigned.  *)
(***************************************************************************)
None == "<None>"

Unset == "<unset>"

\* `not x` for x a str or None
Falsy(x) == x = None \/ x = ""

\* What retry_manager.retry_sync / retry_async can raise to the request layer.
Failures == {"RetryError", "Exception"}

\* Texts the model of the LLM answers a prose request with.
ContentTexts == {"", "A"}

\* Texts the LLM answers a critique request with: a JSON object in a json
\* fence, a JSON array, free prose, nothing.
CritiqueTexts == {"fenced_dict", "[1]", "prose", ""}

\* Texts the LLM answers a refinement request with.
RefinedTexts == {"", "R"}

\* The critique answers drawn inside a batch, where several units run at
\* once: a JSON object, free prose, or a failed request.
BatchCritiqueOutcomes == {"fenced_dict", "prose", "RetryError"}

BatchEntries == {"summaries", "novels", "refine"}

DirectEntries == {"pipeline_sync", "pipeline_async"}

Modes == {"auto", "manual", "disabled"}

\* A progress callback is absent, a plain function, or a callable object
\* that also answers .strip() (a unittest.mock object, for one).
Notifiers == {"none", "function", "mock"}

(***************************************************************************)
(* _try_parse_json, on the texts above: the structure it returns, or None. *)
(***************************************************************************)
JsonLoads(text) ==
    CASE text = "dumped_dict" -> "dict"
      [] text = "{}"          -> "empty_dict"
      [] text = "[1]"         -> "list"
      [] OTHER                -> None

(***************************************************************************)
(* The texts the extractor is run on, by what they are:                    *)
(*   dumped_dict   {"a": 1}                   a JSON object                *)
(*   {}            {}                         the empty JSON object        *)
(*   [1]           [1]                        a JSON array                 *)
(*   null          null                       the JSON null                *)
(*   fenced_dict   ```json {"a": 1} ```       an object in a json fence    *)
(*   fenced_plain  ``` {"a": 1} ```           an object in a plain fence   *)
(*   embedded      Here: {"a": 1} Bye.        an object inside prose       *)
(*   bad_quotes    {"a": "say "hi" now"}      unescaped quotes in a value  *)
(*   py_dict       {'a': 1}                   a Python dict literal        *)
(*   py_true       {'a': true}                single quotes, JSON literals *)
(*   prose         I cannot do that.          no structure at all          *)
(*   (empty)                                  the empty text               *)
(*   deep          [[[[ ... 100000 times      nesting beyond the recursion *)
(*                                            limit of the JSON decoder    *)
(***************************************************************************)
ExtractorTexts ==
    {"dumped_dict", "{}", "[1]", "null", "fenced_dict", "fenced_plain",
     "embedded", "bad_quotes", "py_dict", "py_true", "prose", "", "deep"}

\* A strategy yields a structure (None for the JSON null), or fails, or lets
\* an exception out that its except clause does not name.
Failed == "<failed>"

Raised == "<raised>"

\* strategy 1: json.loads(response_text); RecursionError is no JSONDecodeError
Strategy1(text) ==
    IF text = "deep" THEN Raised
    ELSE IF text = "null" THEN None
    ELSE IF JsonLoads(text) # None THEN JsonLoads(text)
    ELSE Failed

\* strategy 2: the object inside ```json ... ```
Strategy2(text) == IF text = "fenced_dict" THEN "dict" ELSE Failed

\* strategy 3: the object inside ``` ... ``` with nothing after the fence
Strategy3(text) == IF text = "fenced_plain" THEN "dict" ELSE Failed

\* strategy 4: from the first { to the last } of the text
Strategy4(text) ==
    IF text \in {"dumped_dict", "fenced_dict", "fenced_plain", "embedded"}
    THEN "dict"
    ELSE IF text = "{}" THEN "empty_dict"
    ELSE Failed

\* fix_json_quotes_inline: json.loads, then json.loads of the text with the
\* quotes inside values escaped, then None
FixJsonQuotesInline(text) ==
    IF text = "deep" THEN Raised
    ELSE IF text = "null" THEN None
    ELSE IF JsonLoads(text) # None THEN JsonLoads(text)
    ELSE IF text = "bad_quotes" THEN "dict"
    ELSE None

\* strategy 5 as a strategy: the structure the repair of the quotes gives
Strategy5(text) ==
    IF FixJsonQuotesInline(text) \in {None, Raised} THEN Failed
    ELSE FixJsonQuotesInline(text)

\* strategy 6: ast.literal_eval(response_text)
Strategy6(text) ==
    IF text = "py_dict" THEN "dict"
    ELSE IF text \in {"dumped_dict", "{}", "[1]"} THEN JsonLoads(text)
    ELSE Failed

\* strategy 7: json.loads of the text with every ' replaced by "
Strategy7(text) ==
    IF text = "deep" THEN Raised
    ELSE IF text = "null" THEN None
    ELSE IF text \in {"py_dict", "py_true"} THEN "dict"
    ELSE IF JsonLoads(text) # None THEN JsonLoads(text)
    ELSE Failed

Strategy(k, text) ==
    CASE k = 1 -> Strategy1(text)
      [] k = 2 -> Strategy2(text)
      [] k = 3 -> Strategy3(text)
      [] k = 4 -> Strategy4(text)
      [] k = 5 -> Strategy5(text)
      [] k = 6 -> Strategy6(text)
      [] k = 7 -> Strategy7(text)

Extracted(v, k) == [val |-> v, raised |-> FALSE, last |-> k]

\* strategies 6 and 7, which run when the try around strategy 5 is left by
\* an exception
ParseJsonFrom6(text) ==
    IF Strategy6(text) # Failed THEN Extracted(Strategy6(text), 6)
    ELSE IF Strategy7(text) = Raised THEN [val |-> None, raised |-> TRUE, last |-> 7]
    ELSE IF Strategy7(text) # Failed THEN Extracted(Strategy7(text), 7)
    ELSE Extracted(None, 7)

\* _try_parse_json: what it returns, whether it raises instead, and the last
\* strategy it ran.  Strategy 5 ends with
\* `return fix_json_quotes_inline(response_text)`, which returns None as
\* well as a structure, so that the code below it runs only on an exception.
ParseJson(text) ==
    IF Strategy1(text) = Raised THEN [val |-> None, raised |-> TRUE, last |-> 1]
    ELSE IF Strategy1(text) # Failed THEN Extracted(Strategy1(text), 1)
    ELSE IF Strategy2(text) # Failed THEN Extracted(Strategy2(text), 2)
    ELSE IF Strategy3(text) # Failed THEN Extracted(Strategy3(text), 3)
    ELSE IF Strategy4(text) # Failed THEN Extracted(Strategy4(text), 4)
    ELSE IF FixJsonQuotesInline(text) = Raised THEN ParseJsonFrom6(text)
    ELSE Extracted(FixJsonQuotesInline(text), 5)

TryParseJson(text) == ParseJson(text).val

\* `result and isinstance(result, dict)`
TruthyDict(parsed) == parsed = "dict"

\* json.dumps(result, ensure_ascii=False, indent=2): the re-serialised text,
\* which is not the text the LLM sent.
JsonDumps(parsed) == IF parsed = "dict" THEN "dumped_dict" ELSE "dumped_other"

\* json.loads(critique) gives a dict, so that .get() works on it
LoadsToDict(text) == JsonLoads(text) \in {"dict", "empty_dict"}

(***************************************************************************)
(* The progress notifier.  A call to it returns or raises; a notifier that *)
(* is not faulty never raises.                                             *)
(***************************************************************************)
NotifyOutcomes(cb) ==
    IF cb = "none" THEN {"skip"}
    ELSE IF env.faulty THEN {"ok", "raise"} ELSE {"ok"}

Noted(nt, outcome, u, step) ==
    IF outcome = "skip" THEN nt ELSE nt \cup {[unit |-> u, step |-> step]}

\* user_prompt.strip() raises AttributeError on a plain function
CanStrip(up) == up # "function"

(***************************************************************************)
(* The positional call of the batch generators binds user_prompt to the    *)
(* unit's canon parameter and progress_callback to its user_prompt         *)
(* parameter; the unit's own progress_callback keeps its default, None.    *)
(***************************************************************************)
UnitCallback == IF env.entry \in BatchEntries THEN "none" ELSE env.notifier

UnitUserPrompt == IF env.entry \in BatchEntries THEN env.notifier ELSE "str"

\* What the retry manager can answer a critique request with.
CritiqueOutcomes ==
    IF env.entry \in BatchEntries THEN BatchCritiqueOutcomes
    ELSE CritiqueTexts \cup Failures

(***************************************************************************)
(* Prompts: what a request carries.                                        *)
(***************************************************************************)
Prompt(type, u, content, critique, repairs) ==
    [type |-> type, unit |-> u, content |-> content, critique |-> critique,
     repairs |-> repairs]

EmptyStore ==
    [drafts |-> [u \in Units |-> <<>>], critiques |-> [u \in Units |-> <<>>],
     refined |-> [u \in Units |-> <<>>], history |-> [u \in Units |-> <<>>]]

\* A call of _make_json_request(_async): where it stands, the loop variable,
\* the prompts sent (each by the number of repair preambles it carries), the
\* texts the request layer returned, and what the call returned.
IdleJsonRequest ==
    [pc |-> "idle", attempt |-> 0, prompts |-> <<>>, responses |-> <<>>,
     result |-> Unset, raisedIn |-> ""]

\* The retry configuration of an idle retry manager: the defaults, with
\* delays in tenths of a second.
DefaultRetryConfig ==
    [max_retries |-> 3, base_delay |-> 10, max_delay |-> 300,
     backoff_multiplier |-> 2, jitter |-> TRUE, jitter_range |-> 1]

\* One invocation of the retry manager: its configuration, where it stands,
\* the tries made, how many of them failed, the error of the latest try, the
\* delays slept, the progress messages sent, and how it ended: the result it
\* returned, the error it surfaced, or the retry-exhausted signal with its
\* retry_count and last_exception.
\* Before a try has failed there is no error, before the manager has
\* returned there is no result, and retry_count is 0 as long as no
\* retry-exhausted signal exists.
NoError == [msg |-> {}, status_code |-> {}]

NoResult == [value |-> Unset, try |-> 0]

IdleRetry ==
    [cfg |-> DefaultRetryConfig, pc |-> "idle", tries |-> 0, failures |-> 0,
     error |-> NoError, sleeps |-> <<>>, announced |-> 0, result |-> NoResult,
     surfaced |-> NoError, retry_count |-> 0, last_exception |-> NoError]

\* An entry of a saved document (chapter summaries, novel chapters): the
\* chapter its text was generated for and the run that generated it.
NoEntry == [chapter |-> 0, run |-> 0]

\* A time that is not there: the _status_cache_time of an empty cache, the
\* updated_at of an item that was never updated.
NoStamp == -1

\* A document without items: what read_json_file returns for a missing file.
EmptyDoc == [n \in {} |-> NoStamp]

\* The empty status cache (None).
NoStatus == [completed |-> FALSE, details |-> -1]

\* A DataManager and the characters document of its project: the file on
\* disk, the status cache and its time, the clock in seconds, the latest
\* operation with its arguments and the value it returned (a success flag
\* for a write, a document for a read, a status for a status query), the data
\* handed to the latest write_json_file that succeeded, and the loads from
\* disk that reads have made since that write.  The document a read returned
\* is in the hands of the caller, who may change it; shared tells whether it
\* is the very object the manager works on.
IdleDataManager ==
    [exists |-> FALSE, file |-> EmptyDoc, status_cache |-> NoStatus,
     status_cache_time |-> NoStamp, now |-> 0, op |-> "none", key |-> "",
     description |-> "", ret |-> FALSE, read |-> EmptyDoc, shared |-> FALSE,
     status |-> NoStatus, wrote |-> FALSE, written |-> EmptyDoc, loads |-> 0]

\* DEFAULT_RETRY_CONFIG, with delays in tenths of a second.
DEFAULT_RETRY_CONFIG ==
    [max_retries |-> 3, base_delay |-> 10, max_delay |-> 300,
     backoff_multiplier |-> 2]

\* What get_retry_config has not reported yet.
NoReport == [retries |-> -1, delay |-> -1, backoff |-> -1]

\* The process-wide retry configuration (the four numbers of RETRY_CONFIG
\* that can be overridden), the latest operation on it, and what the latest
\* get_retry_config reported.
IdleConfig ==
    [RETRY_CONFIG |-> DEFAULT_RETRY_CONFIG, op |-> "none", reported |-> NoReport]

\* Batch runs that follow one another on one project: the saved document,
\* the document as it was before the latest run, the runs made, and the
\* chapters, the results and the failed chapters of the latest run.
IdleRerun ==
    [saved |-> [k \in Units |-> NoEntry], before |-> [k \in Units |-> NoEntry],
     runs |-> 0, passed |-> <<>>, results |-> [k \in Units |-> NoEntry],
     failed |-> <<>>]

InitUnit ==
    [pc |-> "idle", draft |-> Unset, critique |-> Unset, refined |-> Unset,
     result |-> Unset, attempt |-> 0, asked |-> 0, answer |-> FALSE,
     raisedIn |-> ""]

\* A task for every chapter, with or without a summary.
HasTaskAlways(n) == TRUE

\* `if f"chapter_{i}" in summaries` of the novel generators; the summary
\* generator creates a task for every chapter.
HasTask(n) == env.entry = "summaries" \/ n \in env.summaries

\* The chapters a batch generator creates a task for, in ascending order.
RECURSIVE DispatchedUpTo(_)
DispatchedUpTo(n) ==
    IF n = 0 THEN <<>>
    ELSE IF HasTask(n)
         THEN Append(DispatchedUpTo(n - 1), n)
         ELSE DispatchedUpTo(n - 1)

SeqToSet(s) == {s[k] : k \in 1..Len(s)}

(***************************************************************************)
(* The inputs of one invocation: the entry point, whether the client is    *)
(* available, the progress callback and whether it can raise, the chapters *)
(* and which of them have a summary, and GENERATION_CONFIG.  The pipeline  *)
(* called on its own gets one chapter.  Options an entry point never reads *)
(* keep their defaults; inside a batch the units run without a callback,   *)
(* so show_critique_to_user sends nothing there and keeps its default.     *)
(***************************************************************************)
Envs ==
    { e \in [entry : BatchEntries \cup DirectEntries,
             available : BOOLEAN,
             notifier : Notifiers,
             faulty : BOOLEAN,
             nChapters : 0..MaxUnits,
             summaries : SUBSET Units,
             enable_refinement : BOOLEAN,
             refinement_mode : Modes,
             save_intermediate_data : BOOLEAN,
             show_critique_to_user : BOOLEAN] :
        /\ e.summaries \subseteq 1..e.nChapters
        /\ (e.notifier = "none" => ~e.faulty)
        /\ (e.entry \in DirectEntries => e.nChapters = 1 /\ e.summaries = {1})
        /\ (e.entry = "summaries" => e.summaries = {})
        /\ (e.entry \in BatchEntries => e.show_critique_to_user)
        /\ (e.entry \in {"summaries", "novels"} =>
               /\ e.enable_refinement /\ e.refinement_mode = "auto"
               /\ e.save_intermediate_data /\ e.show_critique_to_user) }

Init ==
    /\ env \in Envs
    /\ bpc = IF env.entry \in BatchEntries THEN "call" ELSE "direct"
    /\ tasks = IF env.entry \in BatchEntries THEN <<>> ELSE <<1>>
    /\ idx = 1
    /\ results = [u \in Units |-> Unset]
    /\ failed = <<>>
    /\ unit = [u \in Units |->
                 IF env.entry \in DirectEntries /\ u = 1
                 THEN [InitUnit EXCEPT !.pc = "ready"] ELSE InitUnit]
    /\ requests = [u \in Units |-> <<>>]
    /\ store = EmptyStore
    /\ notified = {}
    /\ jreq = IdleJsonRequest
    /\ retry = IdleRetry
    /\ rerun = IdleRerun
    /\ dm = IdleDataManager
    /\ config = IdleConfig


(***************************************************************************)
(* Intermediate-data logs.  Each _save_* reads the whole document, appends *)
(* one entry under the chapter's key and writes it back, without           *)
(* suspending; it does nothing when save_intermediate_data is off.  An     *)
(* error on the way (ok is false) is caught and printed inside the helper, *)
(* and the log stays as it was.                                            *)
(***************************************************************************)
\* Whether a save gets through.  Inside a batch, where several units run at
\* once, the logs can be written.
SaveOutcomes == IF env.entry \in DirectEntries THEN BOOLEAN ELSE {TRUE}

\* _save_initial_draft that files every draft under the key of chapter 1.
SaveInitialDraftOneKey(st, u, content, ok) ==
    IF ~env.save_intermediate_data \/ ~ok THEN st
    ELSE [st EXCEPT !.drafts[1] = Append(@, [content |-> content])]

SaveInitialDraft(st, u, content, ok) ==
    IF ~env.save_intermediate_data \/ ~ok THEN st
    ELSE [st EXCEPT !.drafts[u] = Append(@, [content |-> content])]

\* The pipeline's json.loads(critique) before its own `import json` raises
\* UnboundLocalError, so the entry always holds the raw_critique wrapper.
SaveCritiqueData(st, u, critique, ok) ==
    IF ~env.save_intermediate_data \/ ~ok THEN st
    ELSE [st EXCEPT !.critiques[u] = Append(@, [raw_critique |-> critique])]

SaveRefinedDraft(st, u, content, ok) ==
    IF ~env.save_intermediate_data \/ ~ok THEN st
    ELSE [st EXCEPT !.refined[u] = Append(@, [content |-> content])]

SaveRefinementHistory(st, u, initial, refined, critique, ok) ==
    IF ~env.save_intermediate_data \/ ~ok THEN st
    ELSE [st EXCEPT !.history[u] =
             Append(@, [initial |-> initial, refined |-> refined,
                        parsed |-> env.show_critique_to_user
                                   /\ JsonLoads(critique) # None])]

(***************************************************************************)
(* The working state of one unit while a step of it runs, and the ways a   *)
(* step ends: the unit raises, returns, or suspends on a request.          *)
(***************************************************************************)
Ctx(u) == [rec |-> unit[u], reqs |-> requests[u], st |-> store, nt |-> notified]

WithNote(c, outcome, u, step) == [c EXCEPT !.nt = Noted(c.nt, outcome, u, step)]

Commit(u, rec, reqs, st, nt) ==
    /\ unit' = [unit EXCEPT ![u] = rec]
    /\ requests' = [requests EXCEPT ![u] = reqs]
    /\ store' = st
    /\ notified' = nt
    /\ UNCHANGED <<env, bpc, tasks, idx, results, failed, standalone>>

\* `where` names the code the exception comes out of: the progress callback
\* called by the unit ("notify"), user_prompt.strip() ("prompt"), or the
\* content request ("request").
Raise(u, c, where) ==
    Commit(u, [c.rec EXCEPT !.pc = "raised", !.raisedIn = where], c.reqs, c.st, c.nt)

Return(u, c, v) ==
    Commit(u, [c.rec EXCEPT !.pc = "returned", !.result = v], c.reqs, c.st, c.nt)

Issue(u, c, pc, prompt) ==
    Commit(u, [c.rec EXCEPT !.pc = pc], Append(c.reqs, prompt), c.st, c.nt)

Running(u) ==
    /\ bpc \in {"gather", "direct"}
    /\ u \in SeqToSet(tasks)

(***************************************************************************)
(* _make_request / _make_async_request with the default with_retry=True,   *)
(* from the point where the retry manager answers.  `out` is the text the  *)
(* retry manager returns or the failure it raises.  The result says what   *)
(* the request returns, whether it raised instead, and whether it called   *)
(* the progress callback.                                                  *)
(***************************************************************************)
MakeRequest(out) ==
    [val |-> IF out \in Failures THEN None ELSE out,
     raised |-> FALSE, called |-> FALSE]

MakeAsyncRequest(out, cb) ==
    IF out \in Failures
    THEN { [val |-> None, raised |-> n = "raise", called |-> n # "skip"] :
             n \in NotifyOutcomes(cb) }
    ELSE { [val |-> out, raised |-> FALSE, called |-> FALSE] }

AfterRequest(c, r, u) ==
    IF r.called THEN [c EXCEPT !.nt = @ \cup {[unit |-> u, step |-> "error"]}]
    ELSE c

(***************************************************************************)
(* Units of generate_all_summaries_async and generate_all_novels_async:    *)
(* generate_chapter_summary_async and generate_novel_chapter_async.        *)
(***************************************************************************)
PlainType == IF env.entry = "summaries" THEN "chapter_summary" ELSE "novel_chapter"

PlainStart(u) ==
    /\ Running(u)
    /\ env.entry \in {"summaries", "novels"}
    /\ unit[u].pc = "ready"
    /\ IF ~CanStrip(UnitUserPrompt) THEN Raise(u, Ctx(u), "prompt")
       ELSE IF ~env.available THEN Return(u, Ctx(u), None)
       ELSE Issue(u, Ctx(u), "plain", Prompt(PlainType, u, None, None, 0))

PlainResponse(u) ==
    /\ Running(u)
    /\ unit[u].pc = "plain"
    /\ \E out \in ContentTexts \cup Failures :
         \E r \in MakeAsyncRequest(out, UnitCallback) :
           IF r.raised THEN Raise(u, AfterRequest(Ctx(u), r, u), "request")
           ELSE Return(u, AfterRequest(Ctx(u), r, u), r.val)

(***************************************************************************)
(* The display of the critique (show_critique_to_user).  The message is    *)
(* built and sent inside a try whose bare except sends a shortened message *)
(* instead: when the critique loads as a dict the callback is called in    *)
(* the try and, if that call raises, once more in the handler; otherwise   *)
(* it is called in the handler only.  A raise in the handler propagates.   *)
(***************************************************************************)
ShowCritique(critique, cb) ==
    IF ~env.show_critique_to_user \/ cb = "none"
    THEN { [raised |-> FALSE, called |-> FALSE] }
    ELSE IF LoadsToDict(critique)
    THEN { [raised |-> n1 = "raise" /\ n2 = "raise", called |-> TRUE] :
             n1 \in NotifyOutcomes(cb), n2 \in NotifyOutcomes(cb) }
    ELSE { [raised |-> n = "raise", called |-> TRUE] : n \in NotifyOutcomes(cb) }

(***************************************************************************)
(* generate_novel_chapter_with_refinement_async, step by step.             *)
(***************************************************************************)
IsAsyncPipeline == env.entry \in {"refine", "pipeline_async"}

\* AfterRefineAsync where a failed refinement fails the unit
AfterRefineAsyncFailsUnit(u, c0, refined) ==
    LET c == [c0 EXCEPT !.rec.refined = refined] IN
    IF Falsy(refined) THEN Return(u, c, None)
    ELSE \E ok1 \in SaveOutcomes, ok2 \in SaveOutcomes :
         LET c1 == [c EXCEPT !.st =
                      SaveRefinementHistory(
                          SaveRefinedDraft(c.st, u, refined, ok1),
                          u, c.rec.draft, refined, c.rec.critique, ok2)]
         IN \E n \in NotifyOutcomes(UnitCallback) :
              IF n = "raise" THEN Raise(u, WithNote(c1, n, u, "done"), "notify")
              ELSE Return(u, WithNote(c1, n, u, "done"), refined)

\* the code after `refined_content = await self.generate_novel_refinement_async(...)`
AfterRefineAsync(u, c0, refined) ==
    LET c == [c0 EXCEPT !.rec.refined = refined] IN
    IF Falsy(refined)
    THEN \E n \in NotifyOutcomes(UnitCallback) :
           IF n = "raise" THEN Raise(u, WithNote(c, n, u, "refine_failed"), "notify")
           ELSE Return(u, WithNote(c, n, u, "refine_failed"), c.rec.draft)
    ELSE \E ok1 \in SaveOutcomes, ok2 \in SaveOutcomes :
         LET c1 == [c EXCEPT !.st =
                      SaveRefinementHistory(
                          SaveRefinedDraft(c.st, u, refined, ok1),
                          u, c.rec.draft, refined, c.rec.critique, ok2)]
         IN \E n \in NotifyOutcomes(UnitCallback) :
              IF n = "raise" THEN Raise(u, WithNote(c1, n, u, "done"), "notify")
              ELSE Return(u, WithNote(c1, n, u, "done"), refined)

\* generate_novel_refinement_async up to its request
RefinementAsyncCall(u, c) ==
    IF ~CanStrip(UnitUserPrompt) THEN Raise(u, c, "prompt")
    ELSE IF ~env.available THEN AfterRefineAsync(u, c, None)
    ELSE Issue(u, c, "refine",
               Prompt("novel_refinement", u, c.rec.draft, c.rec.critique, 0))

\* ModeCheckAsync without the test for "disabled"
ModeCheckAsyncNoDisabled(u, c) ==
    \E n \in NotifyOutcomes(UnitCallback) :
      IF n = "raise" THEN Raise(u, WithNote(c, n, u, "refining"), "notify")
      ELSE RefinementAsyncCall(u, WithNote(c, n, u, "refining"))

\* the refinement-mode check and the announcement of the refinement
ModeCheckAsync(u, c) ==
    IF env.refinement_mode = "disabled" THEN Return(u, c, c.rec.draft)
    ELSE \E n \in NotifyOutcomes(UnitCallback) :
           IF n = "raise" THEN Raise(u, WithNote(c, n, u, "refining"), "notify")
           ELSE RefinementAsyncCall(u, WithNote(c, n, u, "refining"))

\* the code after `critique = await self.generate_novel_critique_async(...)`
AfterCritiqueAsync(u, c0, critique) ==
    LET c == [c0 EXCEPT !.rec.critique = critique] IN
    IF Falsy(critique)
    THEN \E n \in NotifyOutcomes(UnitCallback) :
           IF n = "raise" THEN Raise(u, WithNote(c, n, u, "critique_failed"), "notify")
           ELSE Return(u, WithNote(c, n, u, "critique_failed"), c.rec.draft)
    ELSE \E ok \in SaveOutcomes :
         LET c1 == [c EXCEPT !.st = SaveCritiqueData(c.st, u, critique, ok)] IN
         \E sh \in ShowCritique(critique, UnitCallback) :
           LET c2 == IF sh.called THEN WithNote(c1, "ok", u, "critique") ELSE c1 IN
           IF sh.raised THEN Raise(u, c2, "notify") ELSE ModeCheckAsync(u, c2)

\* the raw-text request generate_novel_critique_async falls back to
CritiqueRawAsyncCall(u, c) ==
    IF ~env.available THEN AfterCritiqueAsync(u, c, None)
    ELSE Issue(u, c, "crit_raw", Prompt("novel_critique", u, c.rec.draft, None, 0))

\* generate_novel_critique_async up to the first request of
\* _make_json_request_async
CritiqueAsyncCall(u, c) ==
    IF ~env.available THEN CritiqueRawAsyncCall(u, c)
    ELSE Issue(u, [c EXCEPT !.rec.attempt = 0], "crit_json",
               Prompt("novel_critique", u, c.rec.draft, None, 0))

\* AfterDraftAsync with `if initial_content is None` for `if not initial_content`
AfterDraftAsyncNoneOnly(u, c0, content) ==
    LET c == [c0 EXCEPT !.rec.draft = content] IN
    IF content = None THEN Return(u, c, None)
    ELSE \E ok \in SaveOutcomes :
         LET c1 == [c EXCEPT !.st = SaveInitialDraft(c.st, u, content, ok)] IN
         IF ~env.enable_refinement THEN Return(u, c1, content)
         ELSE \E n \in NotifyOutcomes(UnitCallback) :
                IF n = "raise" THEN Raise(u, WithNote(c1, n, u, "critiquing"), "notify")
                ELSE CritiqueAsyncCall(u, WithNote(c1, n, u, "critiquing"))

\* AfterDraftAsync with the draft saved before it is tested
AfterDraftAsyncSaveFirst(u, c0, content) ==
    \E ok \in SaveOutcomes :
    LET c == [c0 EXCEPT !.rec.draft = content,
                        !.st = SaveInitialDraft(c0.st, u, content, ok)] IN
    IF Falsy(content) THEN Return(u, c, None)
    ELSE IF ~env.enable_refinement THEN Return(u, c, content)
    ELSE \E n \in NotifyOutcomes(UnitCallback) :
           IF n = "raise" THEN Raise(u, WithNote(c, n, u, "critiquing"), "notify")
           ELSE CritiqueAsyncCall(u, WithNote(c, n, u, "critiquing"))

\* the code after `initial_content = await self.generate_novel_chapter_async(...)`
AfterDraftAsync(u, c0, content) ==
    LET c == [c0 EXCEPT !.rec.draft = content] IN
    IF Falsy(content) THEN Return(u, c, None)
    ELSE \E ok \in SaveOutcomes :
         LET c1 == [c EXCEPT !.st = SaveInitialDraft(c.st, u, content, ok)] IN
         IF ~env.enable_refinement THEN Return(u, c1, content)
         ELSE \E n \in NotifyOutcomes(UnitCallback) :
                IF n = "raise" THEN Raise(u, WithNote(c1, n, u, "critiquing"), "notify")
                ELSE CritiqueAsyncCall(u, WithNote(c1, n, u, "critiquing"))

PipelineStartAsync(u) ==
    /\ Running(u)
    /\ IsAsyncPipeline
    /\ unit[u].pc = "ready"
    /\ \E n \in NotifyOutcomes(UnitCallback) :
         LET c == WithNote(Ctx(u), n, u, "drafting") IN
         IF n = "raise" THEN Raise(u, c, "notify")
         ELSE IF ~CanStrip(UnitUserPrompt) THEN Raise(u, c, "prompt")
         ELSE IF ~env.available THEN AfterDraftAsync(u, c, None)
         ELSE Issue(u, c, "draft", Prompt("novel_chapter", u, None, None, 0))

DraftResponseAsync(u) ==
    /\ Running(u)
    /\ IsAsyncPipeline
    /\ unit[u].pc = "draft"
    /\ \E out \in ContentTexts \cup Failures :
         \E r \in MakeAsyncRequest(out, UnitCallback) :
           IF r.raised THEN Raise(u, AfterRequest(Ctx(u), r, u), "request")
           ELSE AfterDraftAsync(u, AfterRequest(Ctx(u), r, u), r.val)

\* one turn of the loop of _make_json_request_async, from the response on
CritiqueJsonResponseAsync(u) ==
    /\ Running(u)
    /\ IsAsyncPipeline
    /\ unit[u].pc = "crit_json"
    /\ \E out \in CritiqueOutcomes :
         \E r \in MakeAsyncRequest(out, UnitCallback) :
           LET c == AfterRequest(Ctx(u), r, u)
               parsed == TryParseJson(r.val)
           IN IF r.raised THEN Raise(u, c, "request")
              ELSE IF r.val = None THEN CritiqueRawAsyncCall(u, c)
              ELSE IF parsed # None
                   THEN IF TruthyDict(parsed)
                        THEN AfterCritiqueAsync(u, c, JsonDumps(parsed))
                        ELSE CritiqueRawAsyncCall(u, c)
              ELSE \E n \in NotifyOutcomes(UnitCallback) :
                     LET c1 == WithNote(c, n, u, "json_error") IN
                     IF n = "raise" THEN Raise(u, c1, "notify")
                     ELSE IF c.rec.attempt < 2
                          THEN Issue(u, [c1 EXCEPT !.rec.attempt = @ + 1], "crit_json",
                                     Prompt("novel_critique", u, c.rec.draft, None,
                                            c.rec.attempt + 1))
                          ELSE CritiqueRawAsyncCall(u, c1)

CritiqueRawResponseAsync(u) ==
    /\ Running(u)
    /\ IsAsyncPipeline
    /\ unit[u].pc = "crit_raw"
    /\ \E out \in CritiqueOutcomes :
         \E r \in MakeAsyncRequest(out, UnitCallback) :
           IF r.raised THEN Raise(u, AfterRequest(Ctx(u), r, u), "request")
           ELSE AfterCritiqueAsync(u, AfterRequest(Ctx(u), r, u), r.val)

RefineResponseAsync(u) ==
    /\ Running(u)
    /\ IsAsyncPipeline
    /\ unit[u].pc = "refine"
    /\ \E out \in RefinedTexts \cup Failures :
         \E r \in MakeAsyncRequest(out, UnitCallback) :
           IF r.raised THEN Raise(u, AfterRequest(Ctx(u), r, u), "request")
           ELSE AfterRefineAsync(u, AfterRequest(Ctx(u), r, u), r.val)


(***************************************************************************)
(* generate_novel_chapter_with_refinement, the blocking form, step by      *)
(* step.  It sends no step messages; in manual mode it asks ui.confirm.    *)
(***************************************************************************)
IsSyncPipeline == env.entry = "pipeline_sync"

\* the code after `refined_content = self.generate_novel_refinement(...)`
AfterRefineSync(u, c0, refined) ==
    LET c == [c0 EXCEPT !.rec.refined = refined] IN
    IF Falsy(refined) THEN Return(u, c, c.rec.draft)
    ELSE \E ok1 \in SaveOutcomes, ok2 \in SaveOutcomes :
           Return(u, [c EXCEPT !.st =
                        SaveRefinementHistory(
                            SaveRefinedDraft(c.st, u, refined, ok1),
                            u, c.rec.draft, refined, c.rec.critique, ok2)],
                  refined)

\* generate_novel_refinement up to its request
RefinementSyncCall(u, c) ==
    IF ~CanStrip(UnitUserPrompt) THEN Raise(u, c, "prompt")
    ELSE IF ~env.available THEN AfterRefineSync(u, c, None)
    ELSE Issue(u, c, "refine",
               Prompt("novel_refinement", u, c.rec.draft, c.rec.critique, 0))

\* the refinement-mode check, with the operator's answer in manual mode
ModeCheckSync(u, c) ==
    IF env.refinement_mode = "disabled" THEN Return(u, c, c.rec.draft)
    ELSE IF env.refinement_mode = "manual"
    THEN \E should_refine \in BOOLEAN :
           LET c1 == [c EXCEPT !.rec.asked = @ + 1, !.rec.answer = should_refine] IN
           IF ~should_refine THEN Return(u, c1, c.rec.draft)
           ELSE RefinementSyncCall(u, c1)
    ELSE RefinementSyncCall(u, c)

\* the code after `critique = self.generate_novel_critique(...)`
AfterCritiqueSync(u, c0, critique) ==
    LET c == [c0 EXCEPT !.rec.critique = critique] IN
    IF Falsy(critique) THEN Return(u, c, c.rec.draft)
    ELSE \E ok \in SaveOutcomes :
         LET c1 == [c EXCEPT !.st = SaveCritiqueData(c.st, u, critique, ok)] IN
         \E sh \in ShowCritique(critique, UnitCallback) :
           LET c2 == IF sh.called THEN WithNote(c1, "ok", u, "critique") ELSE c1 IN
           IF sh.raised THEN Raise(u, c2, "notify") ELSE ModeCheckSync(u, c2)

\* the raw-text request generate_novel_critique falls back to
CritiqueRawSyncCall(u, c) ==
    IF ~env.available THEN AfterCritiqueSync(u, c, None)
    ELSE Issue(u, c, "crit_raw", Prompt("novel_critique", u, c.rec.draft, None, 0))

\* generate_novel_critique up to the first request of _make_json_request
CritiqueSyncCall(u, c) ==
    IF ~env.available THEN CritiqueRawSyncCall(u, c)
    ELSE Issue(u, [c EXCEPT !.rec.attempt = 0], "crit_json",
               Prompt("novel_critique", u, c.rec.draft, None, 0))

\* AfterDraftSync where a draft that could not be saved ends the pipeline
AfterDraftSyncStopsOnSaveError(u, c0, content) ==
    LET c == [c0 EXCEPT !.rec.draft = content] IN
    IF Falsy(content) THEN Return(u, c, None)
    ELSE \E ok \in SaveOutcomes :
         LET c1 == [c EXCEPT !.st = SaveInitialDraft(c.st, u, content, ok)] IN
         IF ~ok THEN Return(u, c1, None)
         ELSE IF ~env.enable_refinement THEN Return(u, c1, content)
         ELSE CritiqueSyncCall(u, c1)

\* AfterDraftSync without the test of enable_refinement
AfterDraftSyncAlwaysRefines(u, c0, content) ==
    LET c == [c0 EXCEPT !.rec.draft = content] IN
    IF Falsy(content) THEN Return(u, c, None)
    ELSE \E ok \in SaveOutcomes :
         LET c1 == [c EXCEPT !.st = SaveInitialDraft(c.st, u, content, ok)] IN
         CritiqueSyncCall(u, c1)

\* the code after `initial_content = self.generate_novel_chapter(...)`
AfterDraftSync(u, c0, content) ==
    LET c == [c0 EXCEPT !.rec.draft = content] IN
    IF Falsy(content) THEN Return(u, c, None)
    ELSE \E ok \in SaveOutcomes :
         LET c1 == [c EXCEPT !.st = SaveInitialDraft(c.st, u, content, ok)] IN
         IF ~env.enable_refinement THEN Return(u, c1, content)
         ELSE CritiqueSyncCall(u, c1)

PipelineStartSync(u) ==
    /\ Running(u)
    /\ IsSyncPipeline
    /\ unit[u].pc = "ready"
    /\ IF ~CanStrip(UnitUserPrompt) THEN Raise(u, Ctx(u), "prompt")
       ELSE IF ~env.available THEN AfterDraftSync(u, Ctx(u), None)
       ELSE Issue(u, Ctx(u), "draft", Prompt("novel_chapter", u, None, None, 0))

DraftResponseSync(u) ==
    /\ Running(u)
    /\ IsSyncPipeline
    /\ unit[u].pc = "draft"
    /\ \E out \in ContentTexts \cup Failures :
         AfterDraftSync(u, Ctx(u), MakeRequest(out).val)

\* one turn of the loop of _make_json_request, from the response on
\* CritiqueJsonResponseSync with a fourth JSON attempt
CritiqueJsonResponseSyncFourTries(u) ==
    /\ Running(u)
    /\ IsSyncPipeline
    /\ unit[u].pc = "crit_json"
    /\ \E out \in CritiqueOutcomes :
         LET c == Ctx(u)
             val == MakeRequest(out).val
             parsed == TryParseJson(val)
         IN IF val = None THEN CritiqueRawSyncCall(u, c)
            ELSE IF parsed # None
                 THEN IF TruthyDict(parsed)
                      THEN AfterCritiqueSync(u, c, JsonDumps(parsed))
                      ELSE CritiqueRawSyncCall(u, c)
            ELSE IF c.rec.attempt < 3
                 THEN Issue(u, [c EXCEPT !.rec.attempt = @ + 1], "crit_json",
                            Prompt("novel_critique", u, c.rec.draft, None,
                                   c.rec.attempt + 1))
                 ELSE CritiqueRawSyncCall(u, c)

CritiqueJsonResponseSync(u) ==
    /\ Running(u)
    /\ IsSyncPipeline
    /\ unit[u].pc = "crit_json"
    /\ \E out \in CritiqueOutcomes :
         LET c == Ctx(u)
             val == MakeRequest(out).val
             parsed == TryParseJson(val)
         IN IF val = None THEN CritiqueRawSyncCall(u, c)
            ELSE IF parsed # None
                 THEN IF TruthyDict(parsed)
                      THEN AfterCritiqueSync(u, c, JsonDumps(parsed))
                      ELSE CritiqueRawSyncCall(u, c)
            ELSE IF c.rec.attempt < 2
                 THEN Issue(u, [c EXCEPT !.rec.attempt = @ + 1], "crit_json",
                            Prompt("novel_critique", u, c.rec.draft, None,
                                   c.rec.attempt + 1))
                 ELSE CritiqueRawSyncCall(u, c)

CritiqueRawResponseSync(u) ==
    /\ Running(u)
    /\ IsSyncPipeline
    /\ unit[u].pc = "crit_raw"
    /\ \E out \in CritiqueOutcomes :
         AfterCritiqueSync(u, Ctx(u), MakeRequest(out).val)

RefineResponseSync(u) ==
    /\ Running(u)
    /\ IsSyncPipeline
    /\ unit[u].pc = "refine"
    /\ \E out \in RefinedTexts \cup Failures :
         AfterRefineSync(u, Ctx(u), MakeRequest(out).val)

(***************************************************************************)
(* _make_json_request and _make_json_request_async called on their own.    *)
(* The loop `for attempt in range(3)` asks the request layer, returns None *)
(* when that returned None, returns what _try_parse_json extracted, and    *)
(* otherwise goes round with a repair preamble put before the prompt.      *)
(***************************************************************************)
JsonEntries == {"json_sync", "json_async"}

\* range(3)
JsonAttempts == 3

\* What the retry manager answers a JSON request with: a text, no content,
\* or a failure.
JsonOutcomes == ExtractorTexts \cup {None} \cup Failures

\* The blocking form takes no progress callback.
JsonEnvs ==
    { e \in [entry : JsonEntries, available : BOOLEAN, notifier : Notifiers,
             faulty : BOOLEAN, nChapters : {0}, summaries : {{}},
             enable_refinement : {TRUE}, refinement_mode : {"auto"},
             save_intermediate_data : {TRUE}, show_critique_to_user : {TRUE}] :
        /\ (e.notifier = "none" => ~e.faulty)
        /\ (e.entry = "json_sync" => e.notifier = "none") }

InitJson ==
    /\ env \in JsonEnvs
    /\ bpc = "json"
    /\ tasks = <<>>
    /\ idx = 1
    /\ results = [u \in Units |-> Unset]
    /\ failed = <<>>
    /\ unit = [u \in Units |-> InitUnit]
    /\ requests = [u \in Units |-> <<>>]
    /\ store = EmptyStore
    /\ notified = {}
    /\ jreq = [IdleJsonRequest EXCEPT !.pc = "call"]
    /\ retry = IdleRetry
    /\ rerun = IdleRerun
    /\ dm = IdleDataManager
    /\ config = IdleConfig

JsonReturn(j, v) == [j EXCEPT !.pc = "returned", !.result = v]

JsonRaise(j, where) == [j EXCEPT !.pc = "raised", !.raisedIn = where]

JsonIssue(j, attempt) ==
    [j EXCEPT !.pc = "await", !.attempt = attempt, !.prompts = Append(@, attempt)]

\* the first turn of the loop, up to its request: the request layer returns
\* None at once when the client is not available
JsonRequestCall ==
    /\ bpc = "json"
    /\ jreq.pc = "call"
    /\ jreq' = IF ~env.available THEN JsonReturn(jreq, None)
               ELSE JsonIssue(jreq, 0)
    /\ UNCHANGED <<env, bpc, tasks, idx, results, failed, unit, requests, store,
                   notified, retry, rerun, dm, config>>

\* JsonTurn with one more turn of the loop
JsonTurnOneMore(j0, val) ==
    LET j == [j0 EXCEPT !.responses = Append(@, val)] IN
    IF val = None THEN JsonReturn(j, None)
    ELSE IF ParseJson(val).raised THEN JsonRaise(j, "extract")
    ELSE IF ParseJson(val).val # None THEN JsonReturn(j, ParseJson(val).val)
    ELSE IF j.attempt < JsonAttempts THEN JsonIssue(j, j.attempt + 1)
    ELSE JsonReturn(j, None)

\* JsonTurn that gives up after the first repair
JsonTurnGivesUpEarly(j0, val) ==
    LET j == [j0 EXCEPT !.responses = Append(@, val)] IN
    IF val = None THEN JsonReturn(j, None)
    ELSE IF ParseJson(val).raised THEN JsonRaise(j, "extract")
    ELSE IF ParseJson(val).val # None THEN JsonReturn(j, ParseJson(val).val)
    ELSE IF j.attempt < JsonAttempts - 2 THEN JsonIssue(j, j.attempt + 1)
    ELSE JsonReturn(j, None)

\* one turn of the loop of _make_json_request, from the response on
JsonTurn(j0, val) ==
    LET j == [j0 EXCEPT !.responses = Append(@, val)] IN
    IF val = None THEN JsonReturn(j, None)
    ELSE IF ParseJson(val).raised THEN JsonRaise(j, "extract")
    ELSE IF ParseJson(val).val # None THEN JsonReturn(j, ParseJson(val).val)
    ELSE IF j.attempt < JsonAttempts - 1 THEN JsonIssue(j, j.attempt + 1)
    ELSE JsonReturn(j, None)

\* one turn of the loop of _make_json_request_async, from the response on;
\* n is what the progress callback does when the extraction failed
JsonTurnAsync(j0, val, n) ==
    LET j == [j0 EXCEPT !.responses = Append(@, val)] IN
    IF val = None THEN JsonReturn(j, None)
    ELSE IF ParseJson(val).raised THEN JsonRaise(j, "extract")
    ELSE IF ParseJson(val).val # None THEN JsonReturn(j, ParseJson(val).val)
    ELSE IF n = "raise" THEN JsonRaise(j, "notify")
    ELSE IF j.attempt < JsonAttempts - 1 THEN JsonIssue(j, j.attempt + 1)
    ELSE JsonReturn(j, None)

MakeJsonRequest ==
    /\ bpc = "json"
    /\ env.entry = "json_sync"
    /\ jreq.pc = "await"
    /\ \E out \in JsonOutcomes : jreq' = JsonTurn(jreq, MakeRequest(out).val)
    /\ UNCHANGED <<env, bpc, tasks, idx, results, failed, unit, requests, store,
                   notified, retry, rerun, dm, config>>

MakeJsonRequestAsync ==
    /\ bpc = "json"
    /\ env.entry = "json_async"
    /\ jreq.pc = "await"
    /\ \E out \in JsonOutcomes :
         \E r \in MakeAsyncRequest(out, env.notifier) :
           LET nt == IF r.called THEN notified \cup {[unit |-> 0, step |-> "error"]}
                     ELSE notified
           IN IF r.raised
              THEN /\ jreq' = JsonRaise([jreq EXCEPT !.responses = Append(@, None)],
                                        "request")
                   /\ notified' = nt
              ELSE IF r.val = None \/ ParseJson(r.val).raised
                      \/ ParseJson(r.val).val # None
              THEN /\ jreq' = JsonTurnAsync(jreq, r.val, "skip")
                   /\ notified' = nt
              ELSE \E n \in NotifyOutcomes(env.notifier) :
                     /\ jreq' = JsonTurnAsync(jreq, r.val, n)
                     /\ notified' = Noted(nt, n, 0, "json_error")
    /\ UNCHANGED <<env, bpc, tasks, idx, results, failed, unit, requests, store,
                   retry, rerun, dm, config>>

NextJson ==
    \/ JsonRequestCall
    \/ MakeJsonRequest
    \/ MakeJsonRequestAsync

SpecJson == InitJson /\ [][NextJson]_vars

(***************************************************************************)
(* The retry manager (retry_manager.retry_sync / retry_async), after its   *)
(* specification: classification of the failure, backoff delay, at most    *)
(* max_retries + 1 tries, the retry-exhausted signal.  Delays are in       *)
(* tenths of a second.                                                     *)
(***************************************************************************)
RetryEntries == {"retry_sync", "retry_async"}

\* Largest max_retries of a configuration.
MaxRetries == 4

\* RETRY_CONFIG["retryable_status_codes"]
RetryableStatusCodes == {429, 500, 502, 503, 504}

\* RETRY_CONFIG["retryable_exceptions"]
RetryableKeywords == {"timeout", "connection", "network", "dns", "ssl"}

\* What a try can fail with: the words of the message and the status code
\* the error carries, if it carries one.
Errors ==
    { [msg |-> {"timeout"}, status_code |-> {}],
      [msg |-> {"rate", "limit"}, status_code |-> {429}],
      [msg |-> {"unauthorized"}, status_code |-> {401}],
      [msg |-> {"invalid", "request"}, status_code |-> {}] }

ShouldRetry(e) ==
    \/ e.msg \cap RetryableKeywords # {}
    \/ e.status_code \cap RetryableStatusCodes # {}

RetryConfigs ==
    [max_retries : 0..MaxRetries, base_delay : {5, 10}, max_delay : {30, 300},
     backoff_multiplier : {1, 2}, jitter : BOOLEAN, jitter_range : {1}]

RECURSIVE Pow(_, _)
Pow(b, n) == IF n = 0 THEN 1 ELSE b * Pow(b, n - 1)

Min(a, b) == IF a <= b THEN a ELSE b

\* The jitter a delay can get: a value in [0, jitter_range], none when
\* jitter is off.
Jitters(cfg) == IF cfg.jitter THEN 0..cfg.jitter_range ELSE {0}

\* CalculateDelay without the cap
CalculateDelayUncapped(cfg, n, j) ==
    cfg.base_delay * Pow(cfg.backoff_multiplier, n) + j

\* the backoff delay before the retry that follows try n (0-indexed)
CalculateDelay(cfg, n, j) ==
    Min(cfg.max_delay, cfg.base_delay * Pow(cfg.backoff_multiplier, n)) + j

\* Only the suspendable form takes a progress callback.
RetryEnvs ==
    { e \in [entry : RetryEntries, available : {TRUE}, notifier : Notifiers,
             faulty : BOOLEAN, nChapters : {0}, summaries : {{}},
             enable_refinement : {TRUE}, refinement_mode : {"auto"},
             save_intermediate_data : {TRUE}, show_critique_to_user : {TRUE}] :
        /\ (e.notifier = "none" => ~e.faulty)
        /\ (e.notifier # "none" => e.faulty)
        /\ e.notifier # "mock"
        /\ (e.entry = "retry_sync" => e.notifier = "none") }

InitRetry ==
    /\ env \in RetryEnvs
    /\ bpc = "retry"
    /\ tasks = <<>>
    /\ idx = 1
    /\ results = [u \in Units |-> Unset]
    /\ failed = <<>>
    /\ unit = [u \in Units |-> InitUnit]
    /\ requests = [u \in Units |-> <<>>]
    /\ store = EmptyStore
    /\ notified = {}
    /\ jreq = IdleJsonRequest
    /\ \E cfg \in RetryConfigs : retry = [IdleRetry EXCEPT !.cfg = cfg, !.pc = "try"]
    /\ rerun = IdleRerun
    /\ dm = IdleDataManager
    /\ config = IdleConfig

\* a try of the unit of work that succeeds: its result is returned
RetrySucceed ==
    /\ bpc = "retry"
    /\ retry.pc = "try"
    /\ retry' = [retry EXCEPT !.pc = "returned", !.tries = @ + 1,
                              !.result = [value |-> "ok", try |-> retry.tries + 1]]
    /\ UNCHANGED <<env, bpc, tasks, idx, results, failed, unit, requests, store,
                   notified, jreq, rerun, dm, config>>

\* RetryFailWith that counts the tries from one
RetryFailWithOffByOne(r, e, j) ==
    LET r1 == [r EXCEPT !.tries = @ + 1, !.failures = @ + 1, !.error = e] IN
    IF ~ShouldRetry(e) THEN [r1 EXCEPT !.pc = "surfaced", !.surfaced = e]
    ELSE IF r.tries + 1 >= r.cfg.max_retries
    THEN [r1 EXCEPT !.pc = "exhausted", !.retry_count = r1.tries,
                    !.last_exception = e]
    ELSE [r1 EXCEPT !.pc = "sleep",
                    !.announced = IF env.notifier = "none" THEN @ ELSE @ + 1,
                    !.sleeps = Append(@, CalculateDelay(r.cfg, r.tries, j))]

\* RetryFailWith that retries at once, without a backoff sleep
RetryFailWithNoBackoff(r, e, j) ==
    LET r1 == [r EXCEPT !.tries = @ + 1, !.failures = @ + 1, !.error = e] IN
    IF ~ShouldRetry(e) THEN [r1 EXCEPT !.pc = "surfaced", !.surfaced = e]
    ELSE IF r.tries >= r.cfg.max_retries
    THEN [r1 EXCEPT !.pc = "exhausted", !.retry_count = r1.tries,
                    !.last_exception = e]
    ELSE [r1 EXCEPT !.pc = "try",
                    !.announced = IF env.notifier = "none" THEN @ ELSE @ + 1]

\* RetryFailWith that backs off before it surfaces a non-retryable error
RetryFailWithRetriesAll(r, e, j) ==
    LET r1 == [r EXCEPT !.tries = @ + 1, !.failures = @ + 1, !.error = e] IN
    IF r.tries >= r.cfg.max_retries
    THEN IF ShouldRetry(e)
         THEN [r1 EXCEPT !.pc = "exhausted", !.retry_count = r1.tries,
                         !.last_exception = e]
         ELSE [r1 EXCEPT !.pc = "surfaced", !.surfaced = e]
    ELSE [r1 EXCEPT !.pc = "sleep",
                    !.announced = IF env.notifier = "none" THEN @ ELSE @ + 1,
                    !.sleeps = Append(@, CalculateDelay(r.cfg, r.tries, j))]

\* What the manager does with a try that failed with e: surface e when it is
\* not retryable, signal retry-exhausted when this was try max_retries + 1,
\* else tell the progress callback (whose failure is swallowed) and sleep
\* the backoff delay of this attempt, with jitter j.
RetryFailWith(r, e, j) ==
    LET r1 == [r EXCEPT !.tries = @ + 1, !.failures = @ + 1, !.error = e] IN
    IF ~ShouldRetry(e) THEN [r1 EXCEPT !.pc = "surfaced", !.surfaced = e]
    ELSE IF r.tries >= r.cfg.max_retries
    THEN [r1 EXCEPT !.pc = "exhausted", !.retry_count = r1.tries,
                    !.last_exception = e]
    ELSE [r1 EXCEPT !.pc = "sleep",
                    !.announced = IF env.notifier = "none" THEN @ ELSE @ + 1,
                    !.sleeps = Append(@, CalculateDelay(r.cfg, r.tries, j))]

\* a try of the unit of work that fails
RetryFail ==
    /\ bpc = "retry"
    /\ retry.pc = "try"
    /\ \E e \in Errors : \E j \in Jitters(retry.cfg) :
         \E n \in NotifyOutcomes(env.notifier) :
           retry' = RetryFailWith(retry, e, j)
    /\ UNCHANGED <<env, bpc, tasks, idx, results, failed, unit, requests, store,
                   notified, jreq, rerun, dm, config>>

\* the end of a backoff sleep
RetryWake ==
    /\ bpc = "retry"
    /\ retry.pc = "sleep"
    /\ retry' = [retry EXCEPT !.pc = "try"]
    /\ UNCHANGED <<env, bpc, tasks, idx, results, failed, unit, requests, store,
                   notified, jreq, rerun, dm, config>>

NextRetry ==
    \/ RetrySucceed
    \/ RetryFail
    \/ RetryWake

SpecRetry == InitRetry /\ [][NextRetry]_vars

(***************************************************************************)
(* Batch runs repeated on one project.  generate_all_summaries and         *)
(* generate_all_novel_chapters (workflow_ui.py) generate the chapters that *)
(* have no entry in the saved document, key the results by the chapter's   *)
(* order and save {**saved, **results}.  generate_all_summaries_async keys *)
(* its results and its failed list by the position of the chapter in the   *)
(* list it is given; its caller merges the results in the same way and     *)
(* hands a re-run the chapters that failed.                                *)
(***************************************************************************)
RerunEntries == {"workflow_summaries", "workflow_novels", "async_summaries"}

\* Largest number of runs in a row.
MaxRuns == 3

\* How the generation of one chapter ends.
ChapterOutcomes == {"text", "none", "exception"}

RerunEnvs ==
    { e \in [entry : RerunEntries, available : BOOLEAN, notifier : {"none"},
             faulty : {FALSE}, nChapters : 1..MaxUnits, summaries : {{}},
             enable_refinement : {TRUE}, refinement_mode : {"auto"},
             save_intermediate_data : {TRUE}, show_critique_to_user : {TRUE}] :
        e.entry = "workflow_novels" => e.available }

InitRerun ==
    /\ env \in RerunEnvs
    /\ bpc = "rerun"
    /\ tasks = <<>>
    /\ idx = 1
    /\ results = [u \in Units |-> Unset]
    /\ failed = <<>>
    /\ unit = [u \in Units |-> InitUnit]
    /\ requests = [u \in Units |-> <<>>]
    /\ store = EmptyStore
    /\ notified = {}
    /\ jreq = IdleJsonRequest
    /\ retry = IdleRetry
    /\ rerun = IdleRerun
    /\ dm = IdleDataManager
    /\ config = IdleConfig

\* the numbers of S in ascending order
RECURSIVE Ascending(_)
Ascending(S) ==
    IF S = {} THEN <<>>
    ELSE LET m == CHOOSE x \in S : \A y \in S : x <= y
         IN <<m>> \o Ascending(S \ {m})

\* {**old, **new}
Merge(old, new) == [k \in Units |-> IF new[k] # NoEntry THEN new[k] ELSE old[k]]

\* The loop over enumerate(chapters_to_generate, 1) of the workflow
\* functions: out[i] is how the generation of the i-th chapter ends; the
\* result is keyed by the chapter's order.
WorkflowResults(chapters, out, run) ==
    [k \in Units |->
       IF \E i \in 1..Len(chapters) : chapters[i] = k /\ out[i] = "text"
       THEN [chapter |-> k, run |-> run] ELSE NoEntry]

WorkflowFailed(chapters, out) ==
    Ascending({chapters[i] : i \in {j \in 1..Len(chapters) : out[j] # "text"}})

\* generate_all_summaries / generate_all_novel_chapters
WorkflowGenerateAll ==
    /\ bpc = "rerun"
    /\ env.entry \in {"workflow_summaries", "workflow_novels"}
    /\ rerun.runs < MaxRuns
    /\ LET chapters_to_generate ==
               Ascending({k \in 1..env.nChapters : rerun.saved[k] = NoEntry})
       IN IF chapters_to_generate = <<>> \/ ~env.available
          THEN rerun' = [rerun EXCEPT !.runs = @ + 1, !.before = rerun.saved,
                                      !.passed = <<>>, !.failed = <<>>,
                                      !.results = [k \in Units |-> NoEntry]]
          ELSE \E out \in [1..Len(chapters_to_generate) -> ChapterOutcomes] :
                 LET res == WorkflowResults(chapters_to_generate, out, rerun.runs + 1)
                 IN rerun' = [rerun EXCEPT
                                !.runs = @ + 1, !.before = rerun.saved,
                                !.passed = chapters_to_generate,
                                !.results = res,
                                !.failed = WorkflowFailed(chapters_to_generate, out),
                                !.saved = Merge(rerun.saved, res)]
    /\ UNCHANGED <<env, bpc, tasks, idx, results, failed, unit, requests, store,
                   notified, jreq, retry, dm, config>>

\* The result loop of generate_all_summaries_async: position i of the list
\* gives the key chapter_i and the failed entry i.
AsyncSummariesResults(chapters, out, run) ==
    [k \in Units |->
       IF k \in 1..Len(chapters) /\ out[k] = "text"
       THEN [chapter |-> chapters[k], run |-> run] ELSE NoEntry]

AsyncSummariesFailed(chapters, out) ==
    Ascending({i \in 1..Len(chapters) : out[i] # "text"})

\* the chapters the failed list of the latest run stands for
RECURSIVE FailedChapters(_, _)
FailedChapters(passed, fl) ==
    IF fl = <<>> THEN <<>>
    ELSE <<passed[Head(fl)]>> \o FailedChapters(passed, Tail(fl))

\* generate_all_summaries_async on all chapters, then on the chapters that
\* failed in the run before, each followed by the merge of its results
AsyncSummariesRun ==
    /\ bpc = "rerun"
    /\ env.entry = "async_summaries"
    /\ rerun.runs < MaxRuns
    /\ LET chapters == IF rerun.runs = 0
                       THEN Ascending(1..env.nChapters)
                       ELSE FailedChapters(rerun.passed, rerun.failed)
       IN IF ~env.available
          THEN rerun' = [rerun EXCEPT !.runs = @ + 1, !.before = rerun.saved,
                                      !.failed = <<>>,
                                      !.results = [k \in Units |-> NoEntry]]
          ELSE \E out \in [1..Len(chapters) -> ChapterOutcomes] :
                 LET res == AsyncSummariesResults(chapters, out, rerun.runs + 1)
                 IN rerun' = [rerun EXCEPT
                                !.runs = @ + 1, !.before = rerun.saved,
                                !.passed = chapters,
                                !.results = res,
                                !.failed = AsyncSummariesFailed(chapters, out),
                                !.saved = Merge(rerun.saved, res)]
    /\ UNCHANGED <<env, bpc, tasks, idx, results, failed, unit, requests, store,
                   notified, jreq, retry, dm, config>>

NextRerun ==
    \/ WorkflowGenerateAll
    \/ AsyncSummariesRun

SpecRerun == InitRerun /\ [][NextRerun]_vars

(***************************************************************************)
(* DataManager (data_manager.py): the characters document of one project, *)
(* written and read through one DataManager, and the status of the        *)
(* project, which the manager caches for _cache_ttl seconds.              *)
(***************************************************************************)
DataManagerEntries == {"data_manager"}

\* Latest second of the clock.
MaxTime == 2

\* Largest number of loads from disk that are counted between two writes.
MaxLoads == 2

\* self._cache_ttl, in seconds.
CacheTtl == 2

Names == {"hero", "rival"}

Descriptions == {"brave", "sly"}

\* The value add_character and update_character hand on for a description,
\* before a time stamp is put on it.
Item(description) ==
    [description |-> description, created_at |-> NoStamp, updated_at |-> NoStamp]

\* data[key] = value, and del data[key].
Put(data, key, value) ==
    [n \in (DOMAIN data) \cup {key} |-> IF n = key THEN value ELSE data[n]]

Del(data, key) == [n \in (DOMAIN data) \ {key} |-> data[n]]

\* The documents a project can hold when a DataManager is made for it: no
\* file, or a file of characters that were added earlier.
InitDocs ==
    UNION { [S -> { [Item(x) EXCEPT !.created_at = 0] : x \in Descriptions }] :
            S \in SUBSET Names }

DataEnvs ==
    [entry : DataManagerEntries, available : {TRUE}, notifier : {"none"},
     faulty : {FALSE}, nChapters : {0}, summaries : {{}},
     enable_refinement : {TRUE}, refinement_mode : {"auto"},
     save_intermediate_data : {TRUE}, show_critique_to_user : {TRUE}]

InitData ==
    /\ env \in DataEnvs
    /\ bpc = "data"
    /\ tasks = <<>>
    /\ idx = 1
    /\ results = [u \in Units |-> Unset]
    /\ failed = <<>>
    /\ unit = [u \in Units |-> InitUnit]
    /\ requests = [u \in Units |-> <<>>]
    /\ store = EmptyStore
    /\ notified = {}
    /\ jreq = IdleJsonRequest
    /\ retry = IdleRetry
    /\ rerun = IdleRerun
    /\ \E e \in BOOLEAN, doc \in InitDocs :
         /\ ~e => doc = EmptyDoc
         /\ dm = [IdleDataManager EXCEPT !.exists = e, !.file = doc]
    /\ config = IdleConfig

\* read_json_file: the file is loaded from disk on every call, and a missing
\* file reads as the empty document.
ReadJsonFile(d) == IF d.exists THEN d.file ELSE EmptyDoc

\* _clear_status_cache.
ClearStatusCache(d) ==
    [d EXCEPT !.status_cache = NoStatus, !.status_cache_time = NoStamp]

\* write_json_file that leaves the status cache as it is.
WriteJsonFileKeepsCache(d, data, ok) ==
    IF ok
    THEN [d EXCEPT !.exists = TRUE, !.file = data, !.ret = TRUE,
                   !.wrote = TRUE, !.written = data, !.loads = 0]
    ELSE [d EXCEPT !.ret = FALSE]

\* write_json_file: the document is dumped to the file, the status cache is
\* cleared and True is returned; when the file cannot be opened (IOError)
\* nothing is written, the cache stays and False is returned.
WriteJsonFile(d, data, ok) ==
    IF ok
    THEN [ClearStatusCache(d) EXCEPT !.exists = TRUE, !.file = data,
                                     !.ret = TRUE, !.wrote = TRUE,
                                     !.written = data, !.loads = 0]
    ELSE [d EXCEPT !.ret = FALSE]

\* The manager as an operation finds it: the value the operation before it
\* returned is gone.
Called(d, op, key, description) ==
    [d EXCEPT !.op = op, !.key = key, !.description = description,
              !.ret = FALSE, !.read = EmptyDoc, !.shared = FALSE,
              !.status = NoStatus]

\* json.load in read_json_file, as a read of the caller runs it: one more
\* load from disk when the file is there.
Loaded(d) == IF d.exists THEN [d EXCEPT !.loads = @ + 1] ELSE d

\* add_item_to_dict: the value gets its created_at and is put under the key,
\* whether the key is there or not.
AddItemToDict(d, key, value, ok) ==
    LET data == ReadJsonFile(d)
    IN WriteJsonFile(d, Put(data, key, [value EXCEPT !.created_at = d.now]), ok)

\* update_item_in_dict that also writes a key the document does not hold.
UpdateItemInDictAddsMissing(d, key, value, ok) ==
    LET data == ReadJsonFile(d)
    IN WriteJsonFile(d, Put(data, key,
           [value EXCEPT !.created_at = IF key \in DOMAIN data
                                           /\ data[key].created_at # NoStamp
                                        THEN data[key].created_at
                                        ELSE d.now,
                         !.updated_at = d.now]), ok)

\* update_item_in_dict: only a key of the document is updated; the value
\* keeps the created_at of the item it replaces and gets its updated_at.
UpdateItemInDict(d, key, value, ok) ==
    LET data == ReadJsonFile(d)
    IN IF key \in DOMAIN data
       THEN WriteJsonFile(d, Put(data, key,
                [value EXCEPT !.created_at = IF data[key].created_at # NoStamp
                                             THEN data[key].created_at
                                             ELSE d.now,
                              !.updated_at = d.now]), ok)
       ELSE [d EXCEPT !.ret = FALSE]

\* delete_item_from_dict: only a key of the document is deleted.
DeleteItemFromDict(d, key, ok) ==
    LET data == ReadJsonFile(d)
    IN IF key \in DOMAIN data
       THEN WriteJsonFile(d, Del(data, key), ok)
       ELSE [d EXCEPT !.ret = FALSE]

\* _calculate_project_status_details, for the world settings: completed when
\* the document holds a character, and the number of characters it holds.
CalculateProjectStatusDetails(d) ==
    LET characters == ReadJsonFile(d)
    IN [completed |-> characters # EmptyDoc,
        details |-> Cardinality(DOMAIN characters)]

\* get_project_status_details: the cached status is returned while it is
\* younger than _cache_ttl; otherwise the status is calculated and cached.
GetProjectStatusDetailsOf(d) ==
    IF /\ d.status_cache # NoStatus
       /\ d.status_cache_time # NoStamp
       /\ d.now - d.status_cache_time < CacheTtl
    THEN [d EXCEPT !.status = d.status_cache]
    ELSE LET status == CalculateProjectStatusDetails(d)
         IN [Loaded(d) EXCEPT !.status_cache = status,
                              !.status_cache_time = d.now, !.status = status]

\* list_items_in_dict that hands out the object the manager works on.
ListItemsInDictShared(d) ==
    [Loaded(d) EXCEPT !.read = ReadJsonFile(d), !.shared = TRUE]

\* list_items_in_dict: what read_json_file returns, a structure json.load has
\* built for this call and the manager keeps no reference to.
ListItemsInDict(d) ==
    [Loaded(d) EXCEPT !.read = ReadJsonFile(d), !.shared = FALSE]

\* The caller changes a document a read returned: characters[name]
\* ["description"] = description, or del characters[name].  What the caller
\* shares with the manager changes with it.
Mutated(d, data) ==
    IF d.shared
    THEN [d EXCEPT !.op = "mutate", !.read = data, !.file = data]
    ELSE [d EXCEPT !.op = "mutate", !.read = data]

rest == <<env, bpc, tasks, idx, results, failed, unit, requests, store, notified,
          jreq, retry, rerun, config>>

AddCharacter ==
    /\ env.entry \in DataManagerEntries
    /\ \E name \in Names, description \in Descriptions, ok \in BOOLEAN :
         dm' = AddItemToDict(Called(dm, "add", name, description), name,
                             Item(description), ok)
    /\ UNCHANGED rest

UpdateCharacter ==
    /\ env.entry \in DataManagerEntries
    /\ \E name \in Names, description \in Descriptions, ok \in BOOLEAN :
         dm' = UpdateItemInDict(Called(dm, "update", name, description), name,
                                Item(description), ok)
    /\ UNCHANGED rest

DeleteCharacter ==
    /\ env.entry \in DataManagerEntries
    /\ \E name \in Names, ok \in BOOLEAN :
         dm' = DeleteItemFromDict(Called(dm, "delete", name, ""), name, ok)
    /\ UNCHANGED rest

\* read_characters: list_items_in_dict returns what read_json_file returns.
ReadCharacters ==
    /\ env.entry \in DataManagerEntries
    /\ dm.loads < MaxLoads
    /\ dm' = ListItemsInDict(Called(dm, "read", "", ""))
    /\ UNCHANGED rest

GetProjectStatusDetails ==
    /\ env.entry \in DataManagerEntries
    /\ dm.loads < MaxLoads
    /\ dm' = GetProjectStatusDetailsOf(Called(dm, "status", "", ""))
    /\ UNCHANGED rest

\* The caller changes the document the latest read returned.
MutateRead ==
    /\ env.entry \in DataManagerEntries
    /\ dm.op \in {"read", "mutate"}
    /\ \E name \in DOMAIN dm.read :
         \/ \E description \in Descriptions :
              /\ description # dm.read[name].description
              /\ dm' = Mutated(dm, Put(dm.read, name,
                           [dm.read[name] EXCEPT !.description = description]))
         \/ dm' = Mutated(dm, Del(dm.read, name))
    /\ UNCHANGED rest

\* A second passes between two operations.
Tick ==
    /\ env.entry \in DataManagerEntries
    /\ dm.now < MaxTime
    /\ dm' = [dm EXCEPT !.now = @ + 1]
    /\ UNCHANGED rest

NextData ==
    \/ AddCharacter
    \/ UpdateCharacter
    \/ DeleteCharacter
    \/ ReadCharacters
    \/ GetProjectStatusDetails
    \/ MutateRead
    \/ Tick

SpecData == InitData /\ [][NextData]_vars

(***************************************************************************)
(* The process-wide retry configuration (config.py): RETRY_CONFIG as the   *)
(* environment sets it when the module is loaded, and the functions that   *)
(* report, set and reset it.                                               *)
(***************************************************************************)
ConfigEntries == {"retry_config"}

\* The overrides the environment can hold: RETRY_MAX_ATTEMPTS, RETRY_DELAY,
\* MAX_RETRY_DELAY and BACKOFF_FACTOR, each absent (the default of os.getenv)
\* or present.
EnvRetryConfigs ==
    [max_retries : {3, 5}, base_delay : {10, 20}, max_delay : {300, 600},
     backoff_multiplier : {2, 3}]

\* The dictionaries handed to set_retry_config: any of the keys retries,
\* delay and backoff, each with a value.
NewConfigs ==
    UNION { [K -> {1, 4}] : K \in SUBSET {"retries", "delay", "backoff"} }

ConfigEnvs ==
    [entry : ConfigEntries, available : {TRUE}, notifier : {"none"},
     faulty : {FALSE}, nChapters : {0}, summaries : {{}},
     enable_refinement : {TRUE}, refinement_mode : {"auto"},
     save_intermediate_data : {TRUE}, show_critique_to_user : {TRUE}]

InitConfig ==
    /\ env \in ConfigEnvs
    /\ bpc = "config"
    /\ tasks = <<>>
    /\ idx = 1
    /\ results = [u \in Units |-> Unset]
    /\ failed = <<>>
    /\ unit = [u \in Units |-> InitUnit]
    /\ requests = [u \in Units |-> <<>>]
    /\ store = EmptyStore
    /\ notified = {}
    /\ jreq = IdleJsonRequest
    /\ retry = IdleRetry
    /\ rerun = IdleRerun
    /\ dm = IdleDataManager
    /\ \E c \in EnvRetryConfigs : config = [IdleConfig EXCEPT !.RETRY_CONFIG = c]

\* new_config.get(key, default).
Get(new_config, key, default) ==
    IF key \in DOMAIN new_config THEN new_config[key] ELSE default

\* get_retry_config: retries, delay and backoff.
GetRetryConfigOf(c) ==
    [c EXCEPT !.op = "get",
              !.reported = [retries |-> c.RETRY_CONFIG.max_retries,
                            delay |-> c.RETRY_CONFIG.base_delay,
                            backoff |-> c.RETRY_CONFIG.backoff_multiplier]]

\* set_retry_config: max_retries, base_delay and backoff_multiplier are taken
\* from the keys retries, delay and backoff of new_config, or from
\* DEFAULT_RETRY_CONFIG where new_config has no such key; max_delay is not
\* assigned.
SetRetryConfigOf(c, new_config) ==
    [c EXCEPT !.RETRY_CONFIG.max_retries =
                  Get(new_config, "retries", DEFAULT_RETRY_CONFIG.max_retries),
              !.RETRY_CONFIG.base_delay =
                  Get(new_config, "delay", DEFAULT_RETRY_CONFIG.base_delay),
              !.RETRY_CONFIG.backoff_multiplier =
                  Get(new_config, "backoff",
                      DEFAULT_RETRY_CONFIG.backoff_multiplier)]

\* reset_retry_config: set_retry_config(DEFAULT_RETRY_CONFIG).
ResetRetryConfigOf(c) ==
    [SetRetryConfigOf(c, DEFAULT_RETRY_CONFIG) EXCEPT !.op = "reset"]

notConfig == <<env, bpc, tasks, idx, results, failed, unit, requests, store,
               notified, jreq, retry, rerun, dm>>

GetRetryConfig ==
    /\ env.entry \in ConfigEntries
    /\ config' = GetRetryConfigOf(config)
    /\ UNCHANGED notConfig

SetRetryConfig ==
    /\ env.entry \in ConfigEntries
    /\ \E new_config \in NewConfigs :
         config' = [SetRetryConfigOf(config, new_config) EXCEPT !.op = "set"]
    /\ UNCHANGED notConfig

ResetRetryConfig ==
    /\ env.entry \in ConfigEntries
    /\ config' = ResetRetryConfigOf(config)
    /\ UNCHANGED notConfig

NextConfig ==
    \/ GetRetryConfig
    \/ SetRetryConfig
    \/ ResetRetryConfig

SpecConfig == InitConfig /\ [][NextConfig]_vars

(***************************************************************************)
(* The batch generators generate_all_summaries_async,                      *)
(* generate_all_novels_async, generate_all_novels_with_refinement_async.   *)
(***************************************************************************)
Terminal(u) == unit[u].pc \in {"returned", "raised"}

\* the handler `except Exception as e` of a batch generator
BatchExcept(res, nt) ==
    \E n \in NotifyOutcomes(env.notifier) :
      /\ notified' = Noted(nt, n, 0, "batch_exception")
      /\ results' = res
      /\ IF n = "raise"
         THEN bpc' = "raised" /\ UNCHANGED failed
         ELSE bpc' = "returned" /\ failed' = tasks'

\* the call, up to `await asyncio.gather(...)`
Call ==
    /\ bpc = "call"
    /\ UNCHANGED <<env, idx, requests, store, standalone>>
    /\ IF ~env.available
       THEN /\ bpc' = "returned"
            /\ UNCHANGED <<tasks, results, failed, unit, notified>>
       ELSE /\ tasks' = DispatchedUpTo(env.nChapters)
            /\ \E n \in NotifyOutcomes(env.notifier) :
                 IF n = "raise"
                 THEN /\ BatchExcept(results, Noted(notified, n, 0, "batch_start"))
                      /\ UNCHANGED unit
                 ELSE /\ bpc' = "gather"
                      /\ notified' = Noted(notified, n, 0, "batch_start")
                      /\ unit' = [u \in Units |->
                                    IF u \in SeqToSet(tasks')
                                    THEN [unit[u] EXCEPT !.pc = "ready"]
                                    ELSE unit[u]]
                      /\ UNCHANGED <<results, failed>>

\* One turn of the loop over zip(tasks, contents), once gather has returned.
\* The loop does not suspend: nothing else runs between its turns.
Collect ==
    /\ bpc = "gather"
    /\ \A u \in SeqToSet(tasks) : Terminal(u)
    /\ idx <= Len(tasks)
    /\ UNCHANGED <<env, tasks, unit, requests, store, standalone>>
    /\ idx' = idx + 1
    /\ LET i == tasks[idx]
           content == unit[i].result
           isException == unit[i].pc = "raised"
           succeeded == ~isException /\ ~Falsy(content)
           res == IF succeeded THEN [results EXCEPT ![i] = content] ELSE results
           fl == IF succeeded THEN failed ELSE Append(failed, i)
           step == IF isException THEN "unit_exception"
                   ELSE IF succeeded THEN "unit_done" ELSE "unit_failed"
       IN \E n \in NotifyOutcomes(env.notifier) :
            IF n = "raise"
            THEN \E n2 \in NotifyOutcomes(env.notifier) :
                   /\ notified' = Noted(Noted(notified, n, i, step),
                                        n2, 0, "batch_exception")
                   /\ results' = res
                   /\ IF n2 = "raise"
                      THEN bpc' = "raised" /\ failed' = fl
                      ELSE bpc' = "returned" /\ failed' = tasks
            ELSE /\ notified' = Noted(notified, n, i, step)
                 /\ results' = res
                 /\ failed' = fl
                 /\ UNCHANGED bpc

\* `return results, failed_chapters` after the loop
BatchReturn ==
    /\ bpc = "gather"
    /\ \A u \in SeqToSet(tasks) : Terminal(u)
    /\ idx > Len(tasks)
    /\ bpc' = "returned"
    /\ UNCHANGED <<env, tasks, idx, results, failed, unit, requests, store, notified,
                   standalone>>

Next ==
    \/ Call
    \/ Collect
    \/ BatchReturn
    \/ \E u \in Units : PlainStart(u)
    \/ \E u \in Units : PlainResponse(u)
    \/ \E u \in Units : PipelineStartAsync(u)
    \/ \E u \in Units : DraftResponseAsync(u)
    \/ \E u \in Units : CritiqueJsonResponseAsync(u)
    \/ \E u \in Units : CritiqueRawResponseAsync(u)
    \/ \E u \in Units : RefineResponseAsync(u)
    \/ \E u \in Units : PipelineStartSync(u)
    \/ \E u \in Units : DraftResponseSync(u)
    \/ \E u \in Units : CritiqueJsonResponseSync(u)
    \/ \E u \in Units : CritiqueRawResponseSync(u)
    \/ \E u \in Units : RefineResponseSync(u)

Spec == Init /\ [][Next]_vars

\* Largest number of chapters of an invocation whose termination is checked.
MaxLiveUnits == 1

InitLive == Init /\ env.nChapters <= MaxLiveUnits

\* Every LLM call eventually returns or fails, and the event loop runs every
\* coroutine that can run: a step that can be taken is eventually taken.
SpecLive == InitLive /\ [][Next]_vars /\ WF_vars(Next)


(***************************************************************************)
(* Properties.                                                             *)
(***************************************************************************)
Dispatched == SeqToSet(tasks)

ResultKeys == {u \in Units : results[u] # Unset}

FailedKeys == SeqToSet(failed)

BatchReturned == env.entry \in BatchEntries /\ bpc = "returned"

InPipeline == env.entry \in {"refine", "pipeline_sync", "pipeline_async"}

HasRequest(u, type) == \E k \in 1..Len(requests[u]) : requests[u][k].type = type

\* the unit's own task ended in an exception or returned nothing
OwnFailure(u) ==
    \/ unit[u].pc = "raised"
    \/ unit[u].pc = "returned" /\ Falsy(unit[u].result)

\* the unit's own task returned content
OwnSuccess(u) == unit[u].pc = "returned" /\ ~Falsy(unit[u].result)

\* the batch reports for the unit what the unit's own task produced
OutcomeIsOwn(u) ==
    /\ Terminal(u)
    /\ OwnSuccess(u) => results[u] = unit[u].result /\ u \notin FailedKeys
    /\ OwnFailure(u) => u \in FailedKeys /\ u \notin ResultKeys

\* C1: when a batch generator returns, every dispatched unit is in exactly
\* one of results and failed_keys: the two are disjoint and their sizes add
\* up to the number of dispatched units.
C1_ExactlyOneOutcome ==
    BatchReturned =>
       /\ ResultKeys \cap FailedKeys = {}
       /\ Cardinality(ResultKeys) + Len(failed) = Len(tasks)
       /\ \A u \in Dispatched : u \in ResultKeys \cup FailedKeys

\* C2: when a batch generator returns, a unit whose task raised or returned
\* nothing is in failed_keys, and every other unit of the batch is reported
\* with the outcome its own task produced.
C2_FailureIsolated ==
    BatchReturned =>
       \A u \in Dispatched :
          OwnFailure(u) =>
             /\ u \in FailedKeys
             /\ \A v \in Dispatched \ {u} : OutcomeIsOwn(v)

\* C3: a batch generator returns only when every dispatched unit has ended,
\* by returning or by raising.
C3_ReturnsAfterAllUnits ==
    BatchReturned => \A u \in Dispatched : Terminal(u)

\* C4: in a unit's pipeline a critique request exists only once the draft
\* request has returned content, and carries that draft; a refinement
\* request exists only once the critique step has returned a critique, and
\* carries that draft and that critique.
C4_StepsInOrder ==
    \A u \in Units :
      \A k \in 1..Len(requests[u]) :
        LET p == requests[u][k] IN
        /\ p.type = "novel_critique" =>
             /\ \E j \in 1..(k - 1) : requests[u][j].type = "novel_chapter"
             /\ unit[u].draft # Unset /\ ~Falsy(unit[u].draft)
             /\ p.content = unit[u].draft
        /\ p.type = "novel_refinement" =>
             /\ \E j \in 1..(k - 1) : requests[u][j].type = "novel_critique"
             /\ unit[u].critique # Unset /\ ~Falsy(unit[u].critique)
             /\ p.content = unit[u].draft
             /\ p.critique = unit[u].critique

C4_Witness ==
    \E u \in Units :
      /\ unit[u].pc = "refine"
      /\ HasRequest(u, "novel_refinement")
      /\ unit[u].critique = "dumped_dict"

\* C5: a unit whose drafting request returned nothing or an empty text has
\* returned none, has issued no critique and no refinement request, and has
\* no entry in any intermediate-data log.
C5_FailedDraftEndsUnit ==
    \A u \in Units :
      (InPipeline /\ unit[u].draft # Unset /\ Falsy(unit[u].draft)) =>
         /\ unit[u].pc = "returned" /\ unit[u].result = None
         /\ ~HasRequest(u, "novel_critique")
         /\ ~HasRequest(u, "novel_refinement")
         /\ store.drafts[u] = <<>> /\ store.critiques[u] = <<>>
         /\ store.refined[u] = <<>> /\ store.history[u] = <<>>

C5_Witness ==
    \E u \in Units :
      /\ env.save_intermediate_data
      /\ unit[u].draft = "" /\ unit[u].pc = "returned"
      /\ Len(requests[u]) = 1

\* C6: a unit whose critique step yielded nothing has issued no refinement
\* request and returns its draft, and when a batch returns the unit is in
\* results with its draft and not in failed_keys.
C6_MissingCritiqueKeepsDraft ==
    \A u \in Units :
      (InPipeline /\ unit[u].critique # Unset /\ Falsy(unit[u].critique)) =>
         /\ ~HasRequest(u, "novel_refinement")
         /\ unit[u].pc = "returned" => unit[u].result = unit[u].draft
         /\ BatchReturned => results[u] = unit[u].draft /\ u \notin FailedKeys

\* C7: with refinement_mode "disabled" no refinement request is issued, and
\* the content a pipeline returns is its draft.
C7_DisabledNeverRefines ==
    env.refinement_mode = "disabled" =>
       \A u \in Units :
         /\ ~HasRequest(u, "novel_refinement")
         /\ (InPipeline /\ unit[u].pc = "returned" /\ unit[u].result # None) =>
               unit[u].result = unit[u].draft

C7_Witness ==
    /\ env.refinement_mode = "disabled"
    /\ \E u \in Units :
         /\ unit[u].critique = "dumped_dict"
         /\ unit[u].pc = "returned"
         /\ unit[u].result = "A"

\* C8: with refinement_mode "manual" a refinement request is issued only
\* after the operator was asked and answered yes, and a unit with a critique
\* that returns without refining was asked; with "auto" nobody is asked.
C8_ManualAsksOperator ==
    \A u \in Units :
      /\ (env.refinement_mode = "manual" /\ HasRequest(u, "novel_refinement")) =>
            unit[u].asked = 1 /\ unit[u].answer
      /\ (env.refinement_mode = "manual" /\ unit[u].pc = "returned"
            /\ unit[u].critique # Unset /\ ~Falsy(unit[u].critique)
            /\ ~HasRequest(u, "novel_refinement")) =>
            unit[u].asked = 1 /\ ~unit[u].answer
      /\ env.refinement_mode = "auto" => unit[u].asked = 0

C10_RequestNeverRaises ==
    \A u \in Units : unit[u].raisedIn # "request"

\* the request layer returned a text and the extractor got a structure out
JsonExtracts(text) ==
    text # None /\ ~ParseJson(text).raised /\ ParseJson(text).val # None

LastResponse == jreq.responses[Len(jreq.responses)]

\* C11: one call of _make_json_request(_async) sends at most 3 content
\* requests; a request after the first is sent only once the one before it
\* was answered with a text that no structure was extracted from; and a
\* response that a structure is extracted from ends the call, which returns
\* that structure.
C11_AtMostThreeRequests ==
    env.entry \in JsonEntries =>
       /\ Len(jreq.prompts) <= 3
       /\ Len(jreq.responses) <= Len(jreq.prompts)
       /\ \A i \in 2..Len(jreq.prompts) :
             /\ jreq.responses[i - 1] # None
             /\ ~ParseJson(jreq.responses[i - 1]).raised
             /\ ParseJson(jreq.responses[i - 1]).val = None
       /\ \A i \in 1..Len(jreq.responses) :
             JsonExtracts(jreq.responses[i]) =>
                /\ i = Len(jreq.responses)
                /\ jreq.pc = "returned"
                /\ jreq.result = ParseJson(jreq.responses[i]).val
       /\ (jreq.pc = "returned" /\ jreq.result # None) =>
             /\ Len(jreq.responses) >= 1
             /\ jreq.result = ParseJson(LastResponse).val

C11_Witness ==
    /\ env.entry \in JsonEntries
    /\ jreq.pc = "returned"
    /\ jreq.prompts = <<0, 1, 2>>
    /\ jreq.result = "dict"

\* C12 as stated: whenever the call returns none, three content requests
\* have been sent and no structure was extracted from any response.
C12_NoneOnlyAfterThreeRequests ==
    (env.entry \in JsonEntries /\ jreq.pc = "returned" /\ jreq.result = None) =>
       /\ Len(jreq.prompts) = 3
       /\ \A i \in 1..Len(jreq.responses) : ~JsonExtracts(jreq.responses[i])

\* C12 amended: whenever the call returns none, either the request layer
\* returned none to its last request (the client is not available, or the
\* content request failed or came back without content), or three content
\* requests have been sent and each was answered with a text that no
\* structure was extracted from.
C12_NoneAfterFailedRequestOrThree ==
    (env.entry \in JsonEntries /\ jreq.pc = "returned" /\ jreq.result = None) =>
       \/ ~env.available /\ jreq.prompts = <<>>
       \/ /\ Len(jreq.responses) = Len(jreq.prompts)
          /\ Len(jreq.responses) >= 1
          /\ LastResponse = None
       \/ /\ Len(jreq.prompts) = 3
          /\ Len(jreq.responses) = 3
          /\ \A i \in 1..3 :
                jreq.responses[i] # None /\ ~JsonExtracts(jreq.responses[i])

C12_Witness ==
    /\ env.entry \in JsonEntries
    /\ jreq.pc = "returned"
    /\ jreq.result = None
    /\ jreq.prompts = <<0, 1, 2>>
    /\ jreq.responses = <<"prose", "py_dict", "prose">>

\* C18: on every text the extractor runs its seven strategies in order,
\* each only when all before it failed, returns what the first successful
\* one gives, returns none only when all seven fail (the JSON null apart,
\* which strategy 1 reads as none), and never raises.
C18_SevenStrategiesInOrder ==
    env.entry \in JsonEntries =>
       \A i \in 1..Len(jreq.responses) :
          LET text == jreq.responses[i]
              x == ParseJson(text)
          IN text # None =>
                /\ ~x.raised
                /\ \A k \in 1..(x.last - 1) : Strategy(k, text) = Failed
                /\ x.val # None => x.val = Strategy(x.last, text)
                /\ x.val = None =>
                      \/ Strategy(x.last, text) = None
                      \/ \A k \in 1..7 : Strategy(k, text) = Failed

InRetry == env.entry \in RetryEntries

\* C13: the retry manager never makes more than max_retries + 1 tries; when
\* try max_retries + 1 has failed with a retryable error, as all before it,
\* the manager has signalled retry-exhausted with retry_count =
\* max_retries + 1 and the error of that last try; and it signals
\* retry-exhausted in no other case.
C13_ExhaustedAfterAllTries ==
    InRetry =>
       /\ retry.tries <= retry.cfg.max_retries + 1
       /\ (retry.failures = retry.cfg.max_retries + 1 /\ ShouldRetry(retry.error)) =>
             /\ retry.pc = "exhausted"
             /\ retry.retry_count = retry.cfg.max_retries + 1
             /\ retry.last_exception = retry.error
       /\ retry.pc = "exhausted" =>
             /\ retry.tries = retry.cfg.max_retries + 1
             /\ retry.failures = retry.tries
             /\ Len(retry.sleeps) = retry.cfg.max_retries

C13_Witness ==
    /\ InRetry
    /\ retry.cfg.max_retries = 3
    /\ retry.pc = "exhausted"
    /\ retry.tries = 4
    /\ retry.last_exception = [msg |-> {"rate", "limit"}, status_code |-> {429}]

\* C14: when a try succeeds after k failed tries, the manager returns the
\* result of that try, has made k + 1 tries and slept k backoff delays, and
\* has not signalled retry-exhausted; while fewer than max_retries tries
\* have failed, all with a retryable error, the manager goes on or has
\* returned.
C14_ReturnsAfterKFailures ==
    InRetry =>
       /\ retry.pc = "returned" =>
             /\ retry.result = [value |-> "ok", try |-> retry.failures + 1]
             /\ retry.tries = retry.failures + 1
             /\ Len(retry.sleeps) = retry.failures
             /\ retry.retry_count = 0
             /\ retry.surfaced = NoError
       /\ (retry.failures < retry.cfg.max_retries /\ retry.failures >= 1
             /\ ShouldRetry(retry.error)) =>
             /\ retry.pc \in {"sleep", "try", "returned"}
             /\ Len(retry.sleeps) = retry.failures

C14_Witness ==
    /\ InRetry
    /\ retry.cfg.max_retries = 3
    /\ retry.pc = "returned"
    /\ retry.failures = 2
    /\ retry.tries = 3

\* C15: an error that is not retryable is surfaced by the try it occurs in:
\* no further try and no backoff sleep follow it, and it is not reported as
\* retry-exhausted; on the first try that makes 1 try and no sleep.
C15_NonRetryableSurfacesAtOnce ==
    InRetry =>
       /\ (retry.failures >= 1 /\ ~ShouldRetry(retry.error)) =>
             /\ retry.pc = "surfaced"
             /\ retry.surfaced = retry.error
             /\ retry.retry_count = 0
             /\ Len(retry.sleeps) = retry.failures - 1
       /\ (retry.tries = 1 /\ retry.failures = 1 /\ ~ShouldRetry(retry.error)) =>
             retry.sleeps = <<>> /\ retry.announced = 0

C15_Witness ==
    /\ InRetry
    /\ retry.cfg.max_retries = 3
    /\ retry.pc = "surfaced"
    /\ retry.tries = 1
    /\ retry.surfaced = [msg |-> {"unauthorized"}, status_code |-> {401}]

\* the delay of attempt n without jitter, as the claim gives it
BackoffFormula(cfg, n) ==
    Min(cfg.max_delay, cfg.base_delay * Pow(cfg.backoff_multiplier, n))

DelaysFollowFormula ==
    \A i \in 1..Len(retry.sleeps) :
       /\ \E j \in Jitters(retry.cfg) :
            retry.sleeps[i] = BackoffFormula(retry.cfg, i - 1) + j
       /\ retry.sleeps[i] <= retry.cfg.max_delay + retry.cfg.jitter_range

\* base_delay=1.0, max_delay=30.0, backoff_multiplier=2.0, jitter off
ScenarioConfig(cfg) ==
    /\ cfg.base_delay = 10 /\ cfg.max_delay = 300
    /\ cfg.backoff_multiplier = 2 /\ ~cfg.jitter

DelaysOfScenario ==
    ScenarioConfig(retry.cfg) =>
       \A i \in 1..Len(retry.sleeps) : retry.sleeps[i] = <<10, 20, 40, 80, 160>>[i]

\* C16 as stated: the delay slept for attempt n is min(max_delay,
\* base_delay * backoff_multiplier^n) plus a jitter in [0, jitter_range]; it
\* never exceeds max_delay + jitter_range; the delays are non-decreasing in
\* n as long as the formula is below max_delay; and the scenario gives
\* 1, 2, 4, 8 seconds.
C16_DelaysMonotone ==
    InRetry =>
       /\ DelaysFollowFormula
       /\ DelaysOfScenario
       /\ \A i \in 1..(Len(retry.sleeps) - 1) :
             BackoffFormula(retry.cfg, i) < retry.cfg.max_delay =>
                retry.sleeps[i] <= retry.sleeps[i + 1]

\* C16 amended: as stated, but the delays are non-decreasing in n only up to
\* the jitter: the delay of attempt n + 1 is at least the delay of attempt n
\* less jitter_range when jitter is on, and at least the delay of attempt n
\* when jitter is off.
C16_DelaysMonotoneUpToJitter ==
    InRetry =>
       /\ DelaysFollowFormula
       /\ DelaysOfScenario
       /\ \A i \in 1..(Len(retry.sleeps) - 1) :
             retry.sleeps[i] <= retry.sleeps[i + 1]
                + (IF retry.cfg.jitter THEN retry.cfg.jitter_range ELSE 0)

C16_Witness ==
    /\ InRetry
    /\ ScenarioConfig(retry.cfg)
    /\ retry.sleeps = <<10, 20, 40, 80>>

\* C17: a run that follows another leaves every entry the saved document
\* had before it as it was, and every entry it adds is for a chapter that
\* had no entry, under the key of that chapter.
C17_RerunKeepsResults ==
    (env.entry \in RerunEntries /\ rerun.runs >= 2) =>
       \A k \in Units :
          /\ rerun.before[k] # NoEntry => rerun.saved[k] = rerun.before[k]
          /\ (rerun.before[k] = NoEntry /\ rerun.saved[k] # NoEntry) =>
                rerun.saved[k].chapter = k

\* C19: when a notifier was given, to the pipeline called alone or to the
\* batch the pipeline runs in, a unit that has sent its draft request has
\* had "drafting" announced, one that has sent a critique request
\* "critiquing", one that has sent a refinement request "refining", and
\* one that has returned content has had its end announced (as done, or as
\* the return of the draft after a failed critique or refinement).
C19_EveryStepAnnounced ==
    (InPipeline /\ env.notifier # "none") =>
       \A u \in Units :
          /\ HasRequest(u, "novel_chapter") =>
                [unit |-> u, step |-> "drafting"] \in notified
          /\ HasRequest(u, "novel_critique") =>
                [unit |-> u, step |-> "critiquing"] \in notified
          /\ HasRequest(u, "novel_refinement") =>
                [unit |-> u, step |-> "refining"] \in notified
          /\ (unit[u].pc = "returned" /\ ~Falsy(unit[u].result)) =>
                \E step \in {"done", "critique_failed", "refine_failed"} :
                   [unit |-> u, step |-> step] \in notified

\* C20: after a write through a DataManager that succeeded (add, update or
\* delete of an item), a read of the document through the same DataManager
\* returns the data as just written, and the status that is served is the
\* status of the document as it stands: no stale cached value is served.
C20_ReadReturnsWhatWasWritten ==
    /\ (dm.op = "read" /\ dm.wrote) => dm.read = dm.written
    /\ dm.op = "status" => dm.status = CalculateProjectStatusDetails(dm)

\* A read that follows an update: it returns the updated item.
C20_Witness ==
    /\ dm.op = "read"
    /\ dm.wrote
    /\ dm.read = dm.written
    /\ \E n \in DOMAIN dm.read : dm.read[n].updated_at # NoStamp

\* C21: a structure returned by a DataManager read is a copy: when the caller
\* changes it, the stored document stays as it is, and so does what a later
\* read returns.
C21_ReadIsACopy ==
    [][MutateRead => /\ dm'.file = dm.file
                     /\ dm'.exists = dm.exists
                     /\ ReadJsonFile(dm') = ReadJsonFile(dm)]_vars

\* The caller has changed the document a read returned, and it differs from
\* the stored one.
C21_Witness ==
    /\ dm.op = "mutate"
    /\ dm.read # ReadJsonFile(dm)
    /\ dm.exists

\* C22: two consecutive reads of one document through one DataManager, with
\* no write in between, cause at most one load from disk.
C22_ReadsHitCache == dm.loads <= 1

\* The entries under every name but key are the same in both documents.
OthersUnchanged(before, after, key) ==
    \A n \in Names \ {key} :
        /\ n \in DOMAIN after <=> n \in DOMAIN before
        /\ n \in DOMAIN before => after[n] = before[n]

\* C23: with writes that succeed, add_character(n, d) makes a read map n to
\* description d, update_character(n, d2) on a present n makes it map n to d2,
\* delete_character(n) makes n absent; each leaves the entries under every
\* other name as they were; update or delete of an absent name returns False
\* and changes nothing.
C23_CharacterStore ==
    [][LET before == ReadJsonFile(dm)
           after == ReadJsonFile(dm')
           n == dm'.key
       IN /\ (dm'.op = "add" /\ dm'.ret /\ AddCharacter) =>
                 /\ n \in DOMAIN after
                 /\ after[n].description = dm'.description
                 /\ OthersUnchanged(before, after, n)
          /\ (dm'.op = "update" /\ dm'.ret /\ n \in DOMAIN before
              /\ UpdateCharacter) =>
                 /\ n \in DOMAIN after
                 /\ after[n].description = dm'.description
                 /\ OthersUnchanged(before, after, n)
          /\ (dm'.op = "delete" /\ dm'.ret /\ DeleteCharacter) =>
                 /\ n \notin DOMAIN after
                 /\ OthersUnchanged(before, after, n)
          /\ (dm'.op \in {"update", "delete"} /\ n \notin DOMAIN before
              /\ (UpdateCharacter \/ DeleteCharacter)) =>
                 /\ ~dm'.ret
                 /\ dm'.file = dm.file
                 /\ dm'.exists = dm.exists]_vars

\* A character was deleted and another one is still in the document.
C23_Witness ==
    /\ dm.op = "delete"
    /\ dm.ret
    /\ dm.key \notin DOMAIN ReadJsonFile(dm)
    /\ ReadJsonFile(dm) # EmptyDoc

\* C24: after reset_retry_config the process-wide retry configuration equals
\* the factory default (max_retries 3, base_delay 1.0, max_delay 30.0,
\* backoff_multiplier 2.0), whatever was set or overridden before.
C24_ResetRestoresDefault ==
    config.op = "reset" => config.RETRY_CONFIG = DEFAULT_RETRY_CONFIG

\* The logs of intermediate data.
Logs == {"drafts", "critiques", "refined", "history"}

\* A step of the pipeline has produced a text: the variable is assigned and
\* the text is not empty.
Produced(text) == text # Unset /\ ~Falsy(text)

\* The number of entries a unit has in a log once it has saved what it
\* produced.
Entries(u, log) ==
    LET text == CASE log = "drafts"    -> unit[u].draft
                  [] log = "critiques" -> unit[u].critique
                  [] OTHER             -> unit[u].refined
    IN IF env.save_intermediate_data /\ Produced(text) THEN 1 ELSE 0

C26_NotifierOnlyNotifies ==
    BatchReturned =>
       \A u \in Dispatched : unit[u].pc = "returned" /\ OutcomeIsOwn(u)

\* What a pipeline returns, as the texts its requests gave and the settings
\* of the refinement decide it.
ExpectedResult(u) ==
    IF ~Produced(unit[u].draft) THEN None
    ELSE IF ~env.enable_refinement THEN unit[u].draft
    ELSE IF ~Produced(unit[u].critique) THEN unit[u].draft
    ELSE IF env.refinement_mode = "disabled" THEN unit[u].draft
    ELSE IF IsSyncPipeline /\ env.refinement_mode = "manual" /\ ~unit[u].answer
         THEN unit[u].draft
    ELSE IF Produced(unit[u].refined) THEN unit[u].refined
    ELSE unit[u].draft

\* Whether a pipeline that has returned has asked for a critique, and for a
\* refinement, decided in the same way.
ExpectsCritique(u) ==
    env.available /\ Produced(unit[u].draft) /\ env.enable_refinement

ExpectsRefinement(u) ==
    /\ env.available
    /\ Produced(unit[u].critique)
    /\ env.refinement_mode # "disabled"
    /\ (IsSyncPipeline /\ env.refinement_mode = "manual") => unit[u].answer

\* C27: persisting intermediate data is a side effect only: whether the saves
\* get through, fail, or are switched off, a pipeline that returns has
\* issued the requests and returns the content that the texts it received
\* and the refinement settings decide.
C27_SavingIsASideEffect ==
    \A u \in Units :
      (InPipeline /\ unit[u].pc = "returned") =>
         /\ unit[u].result = ExpectedResult(u)
         /\ HasRequest(u, "novel_critique") <=> ExpectsCritique(u)
         /\ HasRequest(u, "novel_refinement") <=> ExpectsRefinement(u)

\* A pipeline whose saves all failed has returned the refined text.
C27_Witness ==
    \E u \in Units :
      /\ env.save_intermediate_data
      /\ unit[u].pc = "returned"
      /\ Produced(unit[u].refined)
      /\ unit[u].result = unit[u].refined
      /\ HasRequest(u, "novel_refinement")
      /\ \A log \in Logs : store[log][u] = <<>>

\* C28: with enable_refinement off a pipeline issues no request but the
\* draft request, whatever refinement_mode is, and returns the draft, or
\* none when drafting failed.
C28_NoRefinementWhenSwitchedOff ==
    (~env.enable_refinement /\ InPipeline) =>
       \A u \in Units :
         /\ ~HasRequest(u, "novel_critique")
         /\ ~HasRequest(u, "novel_refinement")
         /\ Len(requests[u]) <= 1
         /\ unit[u].critique = Unset /\ unit[u].refined = Unset
         /\ unit[u].pc = "returned" =>
               unit[u].result = IF Produced(unit[u].draft) THEN unit[u].draft
                                ELSE None

\* With enable_refinement off and refinement_mode "auto" a pipeline has
\* returned its draft after one request.
C28_Witness ==
    /\ ~env.enable_refinement
    /\ env.refinement_mode = "auto"
    /\ \E u \in Units :
         /\ unit[u].pc = "returned"
         /\ unit[u].result = "A"
         /\ Len(requests[u]) = 1

\* C29: generate_all_novels_async and
\* generate_all_novels_with_refinement_async dispatch exactly the chapters
\* that have an entry in summaries: a chapter without one never runs, causes
\* no request and is in neither results nor failed_keys, and every key of
\* results and failed_keys is the position of a chapter with a summary.
C29_OnlySummarisedChaptersDispatched ==
    env.entry \in {"novels", "refine"} =>
       /\ Dispatched \subseteq env.summaries
       /\ (env.available /\ bpc # "call") => Dispatched = env.summaries
       /\ ResultKeys \cup FailedKeys \subseteq env.summaries
       /\ \A u \in Units \ env.summaries :
            /\ unit[u].pc = "idle"
            /\ requests[u] = <<>>
            /\ u \notin ResultKeys \cup FailedKeys

\* A batch over two chapters of which only the second has a summary has
\* returned the second chapter and never ran the first.
C29_Witness ==
    /\ env.entry = "novels"
    /\ BatchReturned
    /\ env.nChapters = 2
    /\ env.summaries = {2}
    /\ results[2] # Unset
    /\ unit[1].pc = "idle"
    /\ requests[2] # <<>>

\* The invocation, a batch or a pipeline called on its own, has ended.
Ended ==
    IF env.entry \in BatchEntries THEN bpc \in {"returned", "raised"}
    ELSE Terminal(1)

\* The number of requests of one type a unit has issued.
CountOf(u, type) ==
    Cardinality({k \in 1..Len(requests[u]) : requests[u][k].type = type})

\* The largest number of critique requests: the JSON attempts and the
\* raw-text fallback.
MaxCritiqueRequests == JsonAttempts + 1

\* The requests a unit has issued are within what one pipeline invocation
\* can issue.
RequestsBounded ==
    \A u \in Units :
      /\ Len(requests[u]) <= 2 + MaxCritiqueRequests
      /\ CountOf(u, "novel_chapter") <= 1
      /\ CountOf(u, "novel_critique") <= MaxCritiqueRequests
      /\ CountOf(u, "novel_refinement") <= 1
      /\ CountOf(u, "chapter_summary") <= 1

====
